---- MODULE Spec2Model ----
(***************************************************************************)
(* Model of the myschedule conflict engine (conflicts.py) and selection    *)
(* store (storage.py, cli.py, interactive.py).                             *)
(*                                                                         *)
(* Python strings are sequences of one-character strings, so that strip,   *)
(* upper, split and int() are computed character by character.             *)
(***************************************************************************)
EXTENDS Integers, Sequences, FiniteSets, TLC

VARIABLES
    events,      \* find_conflicts: the argument list (list of event dicts)
    conflicts,   \* find_conflicts: the returned list, pairs of input positions
    fc_exc,      \* find_conflicts: exception that reached the caller ("none" if it returned)
    fc_done,     \* find_conflicts has been called on `events`
    file,        \* selected_courses.json: its state on disk
    selected,    \* interactive session: the local set `selected` of run_interactive
    sess_pc,     \* interactive session: the prompt it waits at ("off" when not running)
    op,          \* the last operation on the selection store
    arg,         \* the argument of the last operation
    result,      \* the outcome of the last operation (return value or exit code, exception)
    saved_ids,   \* the ids handed to the last save_selected_course_ids call
    catalog,     \* data/processed: whether courses.json and events.json exist, and their lists
    indexes,     \* the in-memory indexes (courses, course_by_id, events_by_course_id)
    query,       \* the last query and its inputs
    view         \* what the last query computed

cvars == <<events, conflicts, fc_exc, fc_done>>
svars == <<file, selected, sess_pc, op, arg, result, saved_ids>>
qvars == <<catalog, indexes, query, view>>
vars == <<events, conflicts, fc_exc, fc_done, file, selected, sess_pc, op, arg, result, saved_ids,
          catalog, indexes, query, view>>

(***************************************************************************)
(* Python values and outcomes                                              *)
(***************************************************************************)
\* a dict value: a str, None, or no such key in the dict
StrV(s) == [tag |-> "str", s |-> s]
NoneV == [tag |-> "none", s |-> <<>>]
AbsentV == [tag |-> "absent", s |-> <<>>]

\* the element of a one-element set; { e(x) : x \in {v} } binds a local
\* variable x to the value v once
The(S) == CHOOSE x \in S : TRUE

\* outcome of a call: it returned val, or raised exc
Ok(v) == [exc |-> "none", val |-> v]
Raise(e) == [exc |-> e, val |-> 0]

Digits == {"0", "1", "2", "3", "4", "5", "6", "7", "8", "9"}

DigitVal(c) ==
    CASE c = "0" -> 0 [] c = "1" -> 1 [] c = "2" -> 2 [] c = "3" -> 3
      [] c = "4" -> 4 [] c = "5" -> 5 [] c = "6" -> 6 [] c = "7" -> 7
      [] c = "8" -> 8 [] c = "9" -> 9

\* str.isspace of one character (the model's alphabet has the blank only)
IsSpace(c) == c = " "

RECURSIVE lstrip(_)
lstrip(s) ==
    IF s # <<>> /\ IsSpace(Head(s)) THEN lstrip(Tail(s)) ELSE s

RECURSIVE rstrip(_)
rstrip(s) ==
    IF s # <<>> /\ IsSpace(s[Len(s)]) THEN rstrip(SubSeq(s, 1, Len(s) - 1)) ELSE s

\* str.strip()
strip(s) == rstrip(lstrip(s))

\* dict.get(key, default) on the value stored under the key
get(v, default) == IF v.tag = "absent" THEN default ELSE v

\* str(x)
py_str(v) == IF v.tag = "none" THEN <<"N", "o", "n", "e">> ELSE v.s

\* str.split(sep) for a one-character separator
RECURSIVE split_acc(_, _, _, _)
split_acc(s, sep, cur, parts) ==
    IF s = <<>> THEN Append(parts, cur)
    ELSE split_acc(Tail(s), sep,
                   IF Head(s) = sep THEN <<>> ELSE Append(cur, Head(s)),
                   IF Head(s) = sep THEN Append(parts, cur) ELSE parts)

split(s, sep) == split_acc(s, sep, <<>>, <<>>)

RECURSIVE digits_value(_, _)
digits_value(s, acc) ==
    IF s = <<>> THEN acc ELSE digits_value(Tail(s), acc * 10 + DigitVal(Head(s)))

\* int(s): surrounding blanks and one sign are accepted, then decimal digits
py_int(s) ==
    The({ IF Len(t) > 0 /\ Head(t) \in {"+", "-"}
          THEN (IF Len(t) = 1 \/ \E k \in 2..Len(t) : t[k] \notin Digits
                THEN Raise("ValueError")
                ELSE IF Head(t) = "-" THEN Ok(0 - digits_value(Tail(t), 0))
                ELSE Ok(digits_value(Tail(t), 0)))
          ELSE (IF t = <<>> \/ \E k \in 1..Len(t) : t[k] \notin Digits
                THEN Raise("ValueError")
                ELSE Ok(digits_value(t, 0)))
        : t \in {strip(s)} })

(***************************************************************************)
(* conflicts.py                                                            *)
(***************************************************************************)
time_to_minutes(hhmm) ==
    The({ IF Len(parts) # 2 THEN Raise("ValueError")
          ELSE The({ IF h.exc # "none" THEN h
                     ELSE IF m.exc # "none" THEN m
                     ELSE IF ~(0 <= h.val /\ h.val <= 23 /\ 0 <= m.val /\ m.val <= 59)
                          THEN Raise("ValueError")
                          ELSE Ok(h.val * 60 + m.val)
                   : h \in {py_int(parts[1])}, m \in {py_int(parts[2])} })
        : parts \in {split(strip(hhmm), ":")} })

\* overlaps with an inclusive start bound
overlaps_closed_start(a_start, a_end, b_start, b_end) ==
    a_start <= b_end /\ a_end > b_start

\* overlaps with an inclusive end bound
overlaps_closed_end(a_start, a_end, b_start, b_end) ==
    a_start < b_end /\ a_end >= b_start

overlaps(a_start, a_end, b_start, b_end) ==
    a_start < b_end /\ a_end > b_start

\* the try block of the first loop for the time strings of one event: the
\* exception it raises, or the (start, end) minutes
parse_times(start_s, end_s) ==
    The({ IF start.exc # "none" THEN start
          ELSE IF end.exc # "none" THEN end
          ELSE Ok(<<start.val, end.val>>)
        : start \in {time_to_minutes(start_s)}, end \in {time_to_minutes(end_s)} })

\* one pass of the first loop of find_conflicts for the event at position k:
\* the exception that leaves the loop, whether the event is kept, and its
\* entry (date, start, end, ev) of `parsed`, ev being the position k
parse_event(ev, k) ==
    The({ IF date = <<>> \/ start_s = <<>> \/ end_s = <<>>
          THEN [exc |-> "none", keep |-> FALSE, entry |-> <<>>]
          ELSE The({ IF t.exc = "ValueError"
                     THEN [exc |-> "none", keep |-> FALSE, entry |-> <<>>]
                     ELSE IF t.exc # "none"
                     THEN [exc |-> t.exc, keep |-> FALSE, entry |-> <<>>]
                     ELSE IF t.val[2] <= t.val[1]
                     THEN [exc |-> "none", keep |-> FALSE, entry |-> <<>>]
                     ELSE [exc |-> "none", keep |-> TRUE,
                           entry |-> [date |-> date, start |-> t.val[1],
                                      end |-> t.val[2], ev |-> k]]
                   : t \in {parse_times(start_s, end_s)} })
        : date \in {strip(py_str(get(ev.date, StrV(<<>>))))},
          start_s \in {strip(py_str(get(ev.start, StrV(<<>>))))},
          end_s \in {strip(py_str(get(ev.end, StrV(<<>>))))} })

\* first loop of find_conflicts: the list `parsed`
parse_events(evs) ==
    The({ IF \E k \in 1..Len(evs) : steps[k].exc # "none"
          THEN Raise(steps[CHOOSE k \in 1..Len(evs) :
                               /\ steps[k].exc # "none"
                               /\ \A l \in 1..(k - 1) : steps[l].exc = "none"].exc)
          ELSE Ok(The({ [n \in 1..Len(kept) |-> kept[n].entry]
                      : kept \in {SelectSeq(steps, LAMBDA st : st.keep)} }))
        : steps \in {[k \in 1..Len(evs) |-> parse_event(evs[k], k)]} })

\* the second loop without its date test
RECURSIVE scan_pairs_any_date(_, _, _, _)
scan_pairs_any_date(parsed, i, j, out) ==
    IF i > Len(parsed) THEN out
    ELSE IF j > Len(parsed) THEN scan_pairs_any_date(parsed, i + 1, i + 2, out)
    ELSE IF overlaps(parsed[i].start, parsed[i].end, parsed[j].start, parsed[j].end)
         THEN scan_pairs_any_date(parsed, i, j + 1, Append(out, <<parsed[i].ev, parsed[j].ev>>))
         ELSE scan_pairs_any_date(parsed, i, j + 1, out)

\* the second loop with j over every index but i
RECURSIVE scan_pairs_all_j(_, _, _, _)
scan_pairs_all_j(parsed, i, j, out) ==
    IF i > Len(parsed) THEN out
    ELSE IF j > Len(parsed) THEN scan_pairs_all_j(parsed, i + 1, 1, out)
    ELSE IF i = j \/ parsed[i].date # parsed[j].date THEN scan_pairs_all_j(parsed, i, j + 1, out)
    ELSE IF overlaps(parsed[i].start, parsed[i].end, parsed[j].start, parsed[j].end)
         THEN scan_pairs_all_j(parsed, i, j + 1, Append(out, <<parsed[i].ev, parsed[j].ev>>))
         ELSE scan_pairs_all_j(parsed, i, j + 1, out)

\* second loop of find_conflicts: i over parsed, j over i + 1 .. len(parsed) - 1
RECURSIVE scan_pairs(_, _, _, _)
scan_pairs(parsed, i, j, out) ==
    IF i > Len(parsed) THEN out
    ELSE IF j > Len(parsed) THEN scan_pairs(parsed, i + 1, i + 2, out)
    ELSE IF parsed[i].date # parsed[j].date THEN scan_pairs(parsed, i, j + 1, out)
    ELSE IF overlaps(parsed[i].start, parsed[i].end, parsed[j].start, parsed[j].end)
         THEN scan_pairs(parsed, i, j + 1, Append(out, <<parsed[i].ev, parsed[j].ev>>))
         ELSE scan_pairs(parsed, i, j + 1, out)

find_conflicts(evs) ==
    The({ IF parsed.exc # "none" THEN Raise(parsed.exc)
          ELSE Ok(scan_pairs(parsed.val, 1, 2, <<>>))
        : parsed \in {parse_events(evs)} })

(***************************************************************************)
(* Strings of course identifiers                                           *)
(***************************************************************************)
\* str.upper() of one character
UpperChar(c) ==
    CASE c = "a" -> "A" [] c = "b" -> "B" [] c = "e" -> "E" [] c = "n" -> "N"
      [] c = "o" -> "O" [] OTHER -> c

\* str.upper()
upper(s) == [k \in 1..Len(s) |-> UpperChar(s[k])]

\* ord(c), the code point that orders strings
CharCode(c) ==
    CASE c = " " -> 32 [] c = "-" -> 45 [] c = ":" -> 58
      [] c = "A" -> 65 [] c = "B" -> 66 [] c = "E" -> 69 [] c = "N" -> 78 [] c = "O" -> 79
      [] c = "a" -> 97 [] c = "b" -> 98 [] c = "e" -> 101 [] c = "n" -> 110 [] c = "o" -> 111
      [] c = "|" -> 124 [] OTHER -> 48 + DigitVal(c)

\* s < t for two str
RECURSIVE str_lt(_, _)
str_lt(s, t) ==
    IF t = <<>> THEN FALSE
    ELSE IF s = <<>> THEN TRUE
    ELSE IF Head(s) = Head(t) THEN str_lt(Tail(s), Tail(t))
    ELSE CharCode(Head(s)) < CharCode(Head(t))

\* sorted(S) of a set of str
RECURSIVE sorted(_)
sorted(S) ==
    IF S = {} THEN <<>>
    ELSE LET m == CHOOSE x \in S : \A y \in S \ {x} : str_lt(x, y)
         IN  <<m>> \o sorted(S \ {m})

\* the order in which a set's elements are iterated
iter(S) == CHOOSE q \in [1..Cardinality(S) -> S] : {q[k] : k \in 1..Cardinality(S)} = S

(***************************************************************************)
(* JSON text (a sequence of tokens, white space left out) and JSON values  *)
(***************************************************************************)
Tk(t) == [t |-> t, s |-> <<>>]
TkStr(s) == [t |-> "str", s |-> s]

JStr(s) == [ty |-> "str", s |-> s, items |-> <<>>]
JNum == [ty |-> "num", s |-> <<>>, items |-> <<>>]
JNull == [ty |-> "null", s |-> <<>>, items |-> <<>>]
JList(items) == [ty |-> "list", s |-> <<>>, items |-> items]
\* items of a dict: pairs <<key, value>>
JDict(items) == [ty |-> "dict", s |-> <<>>, items |-> items]

\* json.dumps
RECURSIVE json_dumps(_)
json_dumps(v) ==
    LET RECURSIVE elems(_, _)
        elems(items, k) ==
            IF k > Len(items) THEN <<>>
            ELSE (IF k > 1 THEN <<Tk(",")>> ELSE <<>>)
                 \o json_dumps(items[k]) \o elems(items, k + 1)
        RECURSIVE members(_, _)
        members(items, k) ==
            IF k > Len(items) THEN <<>>
            ELSE (IF k > 1 THEN <<Tk(",")>> ELSE <<>>)
                 \o <<TkStr(items[k][1]), Tk(":")>> \o json_dumps(items[k][2])
                 \o members(items, k + 1)
    IN  CASE v.ty = "str" -> <<TkStr(v.s)>>
          [] v.ty = "num" -> <<Tk("num")>>
          [] v.ty = "null" -> <<Tk("null")>>
          [] v.ty = "list" -> <<Tk("[")>> \o elems(v.items, 1) \o <<Tk("]")>>
          [] v.ty = "dict" -> <<Tk("{")>> \o members(v.items, 1) \o <<Tk("}")>>

ParseFail == [ok |-> FALSE, val |-> JNull, rest |-> <<>>]
Parsed(v, rest) == [ok |-> TRUE, val |-> v, rest |-> rest]

\* the JSON decoder: one value at the front of toks
RECURSIVE parse_value(_)
RECURSIVE parse_elems(_, _)
RECURSIVE parse_members(_, _)
parse_value(toks) ==
    IF toks = <<>> THEN ParseFail
    ELSE LET h == Head(toks)
         IN  CASE h.t = "str" -> Parsed(JStr(h.s), Tail(toks))
               [] h.t = "num" -> Parsed(JNum, Tail(toks))
               [] h.t = "null" -> Parsed(JNull, Tail(toks))
               [] h.t = "[" ->
                    IF Len(toks) >= 2 /\ toks[2].t = "]"
                    THEN Parsed(JList(<<>>), Tail(Tail(toks)))
                    ELSE parse_elems(Tail(toks), <<>>)
               [] h.t = "{" ->
                    IF Len(toks) >= 2 /\ toks[2].t = "}"
                    THEN Parsed(JDict(<<>>), Tail(Tail(toks)))
                    ELSE parse_members(Tail(toks), <<>>)
               [] OTHER -> ParseFail

parse_elems(toks, acc) ==
    LET v == parse_value(toks)
    IN  IF ~v.ok \/ v.rest = <<>> THEN ParseFail
        ELSE IF Head(v.rest).t = "," THEN parse_elems(Tail(v.rest), Append(acc, v.val))
        ELSE IF Head(v.rest).t = "]" THEN Parsed(JList(Append(acc, v.val)), Tail(v.rest))
        ELSE ParseFail

parse_members(toks, acc) ==
    IF Len(toks) < 2 \/ toks[1].t # "str" \/ toks[2].t # ":" THEN ParseFail
    ELSE LET v == parse_value(Tail(Tail(toks)))
             item == <<toks[1].s, v.val>>
         IN  IF ~v.ok \/ v.rest = <<>> THEN ParseFail
             ELSE IF Head(v.rest).t = "," THEN parse_members(Tail(v.rest), Append(acc, item))
             ELSE IF Head(v.rest).t = "}" THEN Parsed(JDict(Append(acc, item)), Tail(v.rest))
             ELSE ParseFail

\* json.loads
json_loads(text) ==
    LET r == parse_value(text)
    IN  IF r.ok /\ r.rest = <<>> THEN Ok(r.val) ELSE Raise("JSONDecodeError")

\* dict.get(key, default) of a decoded JSON object: the last member of that name
dict_get(d, key, default) ==
    LET hits == {k \in 1..Len(d.items) : d.items[k][1] = key}
    IN  IF hits = {} THEN default
        ELSE d.items[CHOOSE k \in hits : \A l \in hits : l <= k][2]

(***************************************************************************)
(* storage.py                                                              *)
(***************************************************************************)
\* the file at selected_path: missing, unreadable (read_text raises OSError),
\* not UTF-8 (read_text raises UnicodeDecodeError) or a text
MissingFile == [kind |-> "missing", text |-> <<>>]
UnreadableFile == [kind |-> "unreadable", text |-> <<>>]
UndecodableFile == [kind |-> "undecodable", text |-> <<>>]
TextFile(text) == [kind |-> "text", text |-> text]

\* the try block of load_selected_course_ids without its isinstance(x, str) test
load_try_any_entry(f) ==
    IF f.kind = "unreadable" THEN Raise("OSError")
    ELSE IF f.kind = "undecodable" THEN Raise("UnicodeDecodeError")
    ELSE LET data == json_loads(f.text)
         IN  IF data.exc # "none" THEN data
             ELSE IF data.val.ty # "dict" THEN Raise("AttributeError")
             ELSE LET ids == dict_get(data.val, "selected_course_ids", JList(<<>>))
                  IN  IF ids.ty # "list" THEN Ok({})
                      ELSE IF \E k \in 1..Len(ids.items) : ids.items[k].ty # "str"
                           THEN Raise("AttributeError")
                           ELSE Ok({ upper(strip(ids.items[k].s)) :
                                     k \in {l \in 1..Len(ids.items) :
                                            upper(strip(ids.items[l].s)) # <<>>} })

\* the try block of load_selected_course_ids
load_try(f) ==
    IF f.kind = "unreadable" THEN Raise("OSError")
    ELSE IF f.kind = "undecodable" THEN Raise("UnicodeDecodeError")
    ELSE LET data == json_loads(f.text)
         IN  IF data.exc # "none" THEN data
             ELSE IF data.val.ty # "dict" THEN Raise("AttributeError")
             ELSE LET ids == dict_get(data.val, "selected_course_ids", JList(<<>>))
                  IN  IF ids.ty # "list" THEN Ok({})
                      ELSE Ok({ upper(strip(ids.items[k].s)) :
                                k \in {l \in 1..Len(ids.items) :
                                       /\ ids.items[l].ty = "str"
                                       /\ upper(strip(ids.items[l].s)) # <<>>} })

\* the except clause without AttributeError
LoadCaughtNoAttributeError == {"OSError", "JSONDecodeError", "UnicodeDecodeError"}

\* the exceptions the except clause of load_selected_course_ids catches
LoadCaught == {"OSError", "JSONDecodeError", "UnicodeDecodeError", "AttributeError"}

load_selected_course_ids(f) ==
    IF f.kind = "missing" THEN Ok({})
    ELSE LET r == load_try(f)
         IN  IF r.exc \in LoadCaught THEN Ok({}) ELSE r

\* save_selected_course_ids writing the ids in the order given, unsorted
save_unsorted(ids) ==
    LET keep == SelectSeq(ids, LAMBDA x : strip(x) # <<>>)
        norm == [k \in 1..Len(keep) |-> upper(strip(keep[k]))]
        payload == JDict(<< <<"selected_course_ids", JList([k \in 1..Len(norm) |-> JStr(norm[k])])>> >>)
    IN  TextFile(json_dumps(payload))

\* save_selected_course_ids writing the list under another key
save_other_key(ids) ==
    LET norm == sorted({ upper(strip(ids[k])) : k \in {l \in 1..Len(ids) : strip(ids[l]) # <<>>} })
        payload == JDict(<< <<"selected", JList([k \in 1..Len(norm) |-> JStr(norm[k])])>> >>)
    IN  TextFile(json_dumps(payload))

\* save_selected_course_ids: the file it writes for the iterable ids
save_selected_course_ids(ids) ==
    LET norm == sorted({ upper(strip(ids[k])) : k \in {l \in 1..Len(ids) : strip(ids[l]) # <<>>} })
        payload == JDict(<< <<"selected_course_ids", JList([k \in 1..Len(norm) |-> JStr(norm[k])])>> >>)
    IN  TextFile(json_dumps(payload))

(***************************************************************************)
(* cli.py: the add and remove commands                                     *)
(***************************************************************************)
CmdResult(rc, outcome) == Ok([rc |-> rc, outcome |-> outcome])

\* _cmd_add saving again when the id is already selected
cmd_add_resave(a, f) ==
    The({ IF cid = <<>> THEN [result |-> CmdResult(1, "rejected"), file |-> f, saved |-> FALSE]
          ELSE IF loaded.exc # "none" THEN [result |-> Raise(loaded.exc), file |-> f, saved |-> FALSE]
          ELSE [result |-> CmdResult(0, IF cid \in loaded.val THEN "already" ELSE "added"),
                file |-> save_selected_course_ids(iter(loaded.val \cup {cid})), saved |-> TRUE]
        : cid \in {upper(strip(a))}, loaded \in {load_selected_course_ids(f)} })

\* _cmd_add without the test for an empty course_id
cmd_add_unchecked(a, f) ==
    The({ IF loaded.exc # "none" THEN [result |-> Raise(loaded.exc), file |-> f, saved |-> FALSE]
          ELSE IF cid \in loaded.val
               THEN [result |-> CmdResult(0, "already"), file |-> f, saved |-> FALSE]
               ELSE [result |-> CmdResult(0, "added"),
                     file |-> save_selected_course_ids(iter(loaded.val \cup {cid})), saved |-> TRUE]
        : cid \in {upper(strip(a))}, loaded \in {load_selected_course_ids(f)} })

\* _cmd_add(args, course_by_id) with args.course_id = a on the store f: the
\* outcome, the store afterwards, and whether it was written (an id unknown to
\* course_by_id is added all the same, with a warning)
cmd_add(a, f) ==
    The({ IF cid = <<>> THEN [result |-> CmdResult(1, "rejected"), file |-> f, saved |-> FALSE]
          ELSE IF loaded.exc # "none" THEN [result |-> Raise(loaded.exc), file |-> f, saved |-> FALSE]
          ELSE IF cid \in loaded.val
               THEN [result |-> CmdResult(0, "already"), file |-> f, saved |-> FALSE]
               ELSE [result |-> CmdResult(0, "added"),
                     file |-> save_selected_course_ids(iter(loaded.val \cup {cid})), saved |-> TRUE]
        : cid \in {upper(strip(a))}, loaded \in {load_selected_course_ids(f)} })

\* _cmd_remove writing an empty selection instead of the loaded set without cid
cmd_remove_clear(a, f) ==
    The({ IF cid = <<>> THEN [result |-> CmdResult(1, "rejected"), file |-> f, saved |-> FALSE]
          ELSE IF loaded.exc # "none" THEN [result |-> Raise(loaded.exc), file |-> f, saved |-> FALSE]
          ELSE IF cid \notin loaded.val
               THEN [result |-> CmdResult(0, "not selected"), file |-> f, saved |-> FALSE]
               ELSE [result |-> CmdResult(0, "removed"),
                     file |-> save_selected_course_ids(<<>>), saved |-> TRUE]
        : cid \in {upper(strip(a))}, loaded \in {load_selected_course_ids(f)} })

\* _cmd_remove(args) with args.course_id = a on the store f
cmd_remove(a, f) ==
    The({ IF cid = <<>> THEN [result |-> CmdResult(1, "rejected"), file |-> f, saved |-> FALSE]
          ELSE IF loaded.exc # "none" THEN [result |-> Raise(loaded.exc), file |-> f, saved |-> FALSE]
          ELSE IF cid \notin loaded.val
               THEN [result |-> CmdResult(0, "not selected"), file |-> f, saved |-> FALSE]
               ELSE [result |-> CmdResult(0, "removed"),
                     file |-> save_selected_course_ids(iter(loaded.val \ {cid})), saved |-> TRUE]
        : cid \in {upper(strip(a))}, loaded \in {load_selected_course_ids(f)} })

\* str.lower() of one character
LowerChar(c) == CASE c = "A" -> "a" [] c = "B" -> "b" [] OTHER -> c

\* str.lower()
lower(s) == [k \in 1..Len(s) |-> LowerChar(s[k])]

\* _cmd_search(args, courses) with args.text = text: an empty query is
\* rejected, any other is searched for
cmd_search(text) ==
    IF lower(strip(text)) = <<>> THEN CmdResult(1, "rejected") ELSE CmdResult(0, "searched")

(***************************************************************************)
(* interactive.py                                                          *)
(***************************************************************************)
\* _safe_str(x)
safe_str(v) == IF v.tag = "str" THEN v.s ELSE <<>>

(***************************************************************************)
(* cli.py and interactive.py: the indexes and the selected-events view     *)
(***************************************************************************)
\* a dict is a function on its keys
EmptyDict == [x \in {} |-> <<>>]

\* d[key] = value
dict_set(d, key, value) == [x \in DOMAIN d \cup {key} |-> IF x = key THEN value ELSE d[x]]

\* d.get(key, []) of a dict of lists
get_list(d, key) == IF key \in DOMAIN d THEN d[key] ELSE <<>>

\* _load_json of courses.json or events.json: [] when the file is missing
load_json(cat, name) ==
    IF ~cat.exists THEN <<>> ELSE IF name = "courses" THEN cat.courses ELSE cat.events

\* cli.py: str(rec.get("course_id", "")).strip().upper()
cli_key(rec) == upper(strip(py_str(get(rec.course_id, StrV(<<>>)))))

\* interactive.py: _safe_str(rec.get("course_id")).strip().upper()
safe_key(rec) == upper(strip(safe_str(rec.course_id)))

\* the loop over courses: cids[k] is the key computed for courses[k]
RECURSIVE fill_course_by_id(_, _, _, _)
fill_course_by_id(courses, cids, k, acc) ==
    IF k > Len(courses) THEN acc
    ELSE The({ fill_course_by_id(courses, cids, k + 1, next)
             : next \in {IF cids[k] # <<>> THEN dict_set(acc, cids[k], courses[k]) ELSE acc} })

\* the loop over events: events_by_course_id[cid].append(e)
RECURSIVE fill_events_by_course_id(_, _, _, _)
fill_events_by_course_id(evs, cids, k, acc) ==
    IF k > Len(evs) THEN acc
    ELSE The({ fill_events_by_course_id(evs, cids, k + 1, next)
             : next \in {IF cids[k] # <<>>
                         THEN dict_set(acc, cids[k], Append(get_list(acc, cids[k]), evs[k]))
                         ELSE acc} })

Indexes(courses, course_by_id, events_by_course_id) ==
    [courses |-> courses, course_by_id |-> course_by_id,
     events_by_course_id |-> events_by_course_id]

\* cli.py: _build_indexes()
cli_build_indexes(cat) ==
    The({ Indexes(courses,
                  fill_course_by_id(courses, [k \in 1..Len(courses) |-> cli_key(courses[k])],
                                    1, EmptyDict),
                  fill_events_by_course_id(evs, [k \in 1..Len(evs) |-> cli_key(evs[k])],
                                           1, EmptyDict))
        : courses \in {load_json(cat, "courses")}, evs \in {load_json(cat, "events")} })

\* interactive.py: build_indexes()
build_indexes(cat) ==
    IF ~cat.exists THEN Indexes(<<>>, EmptyDict, EmptyDict)
    ELSE The({ Indexes(courses,
                       fill_course_by_id(courses,
                                         [k \in 1..Len(courses) |-> safe_key(courses[k])],
                                         1, EmptyDict),
                       fill_events_by_course_id(evs, [k \in 1..Len(evs) |-> safe_key(evs[k])],
                                                1, EmptyDict))
             : courses \in {load_json(cat, "courses")}, evs \in {load_json(cat, "events")} })

\* out.extend(events_by_course_id.get(cid, [])) for cid in ids
RECURSIVE extend_all(_, _, _)
extend_all(ids, events_by_course_id, out) ==
    IF ids = <<>> THEN out
    ELSE extend_all(Tail(ids), events_by_course_id,
                    out \o get_list(events_by_course_id, Head(ids)))

\* cli.py: _selected_events(selected_ids, events_by_course_id)
cli_selected_events(selected_ids, events_by_course_id) ==
    extend_all(sorted(selected_ids), events_by_course_id, <<>>)

\* a < b for two tuples of str of one length
RECURSIVE tuple_lt(_, _)
tuple_lt(a, b) ==
    IF a = <<>> THEN FALSE
    ELSE IF Head(a) = Head(b) THEN tuple_lt(Tail(a), Tail(b))
    ELSE str_lt(Head(a), Head(b))

\* list.sort(key=...) as a permutation of the positions: the sort is stable,
\* so position k comes after the positions of smaller key and after the
\* earlier positions of equal key
sort_positions(keys) ==
    [r \in 1..Len(keys) |->
        CHOOSE k \in 1..Len(keys) :
            Cardinality({l \in 1..Len(keys) :
                            tuple_lt(keys[l], keys[k]) \/ (keys[l] = keys[k] /\ l < k)}) = r - 1]

\* the sort key (date, start) of the interactive views
date_start_key(ev) == <<safe_str(ev.date), safe_str(ev.start)>>

\* sorted(evs, key=lambda ev: (_safe_str(ev.get("date")), _safe_str(ev.get("start"))))
sort_by_date_start(evs) ==
    The({ [r \in 1..Len(evs) |-> evs[p[r]]]
        : p \in {sort_positions([k \in 1..Len(evs) |-> date_start_key(evs[k])])} })

\* interactive.py: _selected_events(selected_ids, events_by_course_id)
selected_events(selected_ids, events_by_course_id) ==
    sort_by_date_start(extend_all(sorted(selected_ids), events_by_course_id, <<>>))


\* the filter loop of _conflicts_if_added without its elif branch
RECURSIVE filter_pairs_candidate_first(_, _, _, _)
filter_pairs_candidate_first(all_pairs, candidate_cid, selected_ids, out) ==
    IF all_pairs = <<>> THEN out
    ELSE filter_pairs_candidate_first(
             Tail(all_pairs), candidate_cid, selected_ids,
             IF /\ safe_key(Head(all_pairs)[1]) = candidate_cid
                /\ safe_key(Head(all_pairs)[2]) \in selected_ids
             THEN Append(out, Head(all_pairs)) ELSE out)

\* the filter loop of _conflicts_if_added keeping every pair as the engine
\* returned it
RECURSIVE filter_pairs_as_found(_, _, _, _)
filter_pairs_as_found(all_pairs, candidate_cid, selected_ids, out) ==
    IF all_pairs = <<>> THEN out
    ELSE The({ filter_pairs_as_found(Tail(all_pairs), candidate_cid, selected_ids, next)
             : next \in {The({ IF a_c = candidate_cid /\ b_c \in selected_ids
                               THEN Append(out, Head(all_pairs))
                               ELSE IF b_c = candidate_cid /\ a_c \in selected_ids
                               THEN Append(out, Head(all_pairs))
                               ELSE out
                             : a_c \in {safe_key(Head(all_pairs)[1])},
                               b_c \in {safe_key(Head(all_pairs)[2])} })} })

\* the filter loop of _conflicts_if_added over the pairs (a, b) of all_pairs
RECURSIVE filter_pairs(_, _, _, _)
filter_pairs(all_pairs, candidate_cid, selected_ids, out) ==
    IF all_pairs = <<>> THEN out
    ELSE The({ filter_pairs(Tail(all_pairs), candidate_cid, selected_ids, next)
             : next \in {The({ IF a_c = candidate_cid /\ b_c \in selected_ids
                               THEN Append(out, Head(all_pairs))
                               ELSE IF b_c = candidate_cid /\ a_c \in selected_ids
                               THEN Append(out, <<Head(all_pairs)[2], Head(all_pairs)[1]>>)
                               ELSE out
                             : a_c \in {safe_key(Head(all_pairs)[1])},
                               b_c \in {safe_key(Head(all_pairs)[2])} })} })

\* the pairs of event dicts find_conflicts returns for the list evs
conflict_pairs(evs) ==
    The({ [k \in 1..Len(r.val) |-> <<evs[r.val[k][1]], evs[r.val[k][2]]>>]
        : r \in {find_conflicts(evs)} })

\* _conflicts_if_added(candidate_cid, selected_ids, events_by_course_id);
\* order is the order in which the set selected_ids is iterated
conflicts_if_added(candidate_cid, selected_ids, order, events_by_course_id) ==
    The({ IF cand_events = <<>> \/ selected_ids = {} THEN <<>>
          ELSE filter_pairs(conflict_pairs(extend_all(order, events_by_course_id, <<>>)
                                           \o cand_events),
                            candidate_cid, selected_ids, <<>>)
        : cand_events \in {get_list(events_by_course_id, candidate_cid)} })

\* _cmd_conflicts and _cmd_export taking an empty selection
cmd_query_unloaded(f, cat) ==
    Ok([rc |-> 0, outcome |-> "queried", selected_ids |-> {}, events |-> <<>>])

\* _cmd_conflicts and _cmd_export on the store f and the processed data cat:
\* selected = load_selected_course_ids() and
\* events = _selected_events(selected, events_by_course_id)
cmd_query(f, cat) ==
    The({ Ok([rc |-> 0, outcome |-> "queried", selected_ids |-> ids,
              events |-> cli_selected_events(ids, cli_build_indexes(cat).events_by_course_id)])
        : ids \in {load_selected_course_ids(f).val} })

\* run_interactive keeping the set of the previous pass
menu_selected_stale(f) == {}

\* run_interactive: selected = load_selected_course_ids() at the top of the loop
menu_selected(f) == load_selected_course_ids(f).val

\* the flows writing nothing after selected.add(cid) or selected.remove(cid)
flow_save_staged(f, ids) == f

\* _flow_search_add and _flow_remove: save_selected_course_ids(selected)
flow_save(f, ids) == save_selected_course_ids(iter(ids))

\* the ways _flow_update_data ends: 0 at a prompt, n at the confirmation,
\* scraper failed or aborted, parser failed or aborted, completed
UpdateOutcomes == {"back", "cancelled", "scrape_failed", "parse_failed", "done"}

\* an update that clears the selection store
update_store_reset(f) == MissingFile

\* selected_courses.json after _flow_update_data and the index rebuild:
\* neither the flow nor scrape.py, parse.py or build_indexes writes it
update_store(f) == f

\* _flow_export: the dedup key of an event, event_id or the joined fields
export_key(ev) ==
    The({ IF key # <<>> THEN key
          ELSE safe_str(ev.course_id) \o <<"|">> \o safe_str(ev.date) \o <<"|">>
               \o safe_str(ev.start) \o <<"|">> \o safe_str(ev.end)
        : key \in {strip(safe_str(ev.event_id))} })

\* _flow_export: the loop that fills `unique`
RECURSIVE unique_events(_, _, _)
unique_events(evs, seen, unique) ==
    IF evs = <<>> THEN unique
    ELSE The({ IF key \in seen THEN unique_events(Tail(evs), seen, unique)
               ELSE unique_events(Tail(evs), seen \cup {key}, Append(unique, Head(evs)))
             : key \in {export_key(Head(evs))} })

\* what an export hands to export_events_to_ics: nothing when it is not called
NotExported == [called |-> FALSE, events |-> <<>>]
Exported(evs) == [called |-> TRUE, events |-> evs]

\* _flow_export(events) when the user does not go back
flow_export(evs) ==
    IF evs = <<>> THEN NotExported ELSE Exported(unique_events(evs, {}, <<>>))

\* _cmd_export with args.out = out and events = evs
cmd_export(evs, out) ==
    IF evs = <<>> THEN NotExported
    ELSE IF strip(out) = <<>> THEN NotExported
    ELSE Exported(evs)

(***************************************************************************)
(* datetime: dates as (year, month, day), ordinals, ISO calendar           *)
(***************************************************************************)
is_leap(y) == y % 4 = 0 /\ (y % 100 # 0 \/ y % 400 = 0)

days_in_month(y, m) ==
    IF m = 2 THEN (IF is_leap(y) THEN 29 ELSE 28)
    ELSE IF m \in {4, 6, 9, 11} THEN 30 ELSE 31

days_before_year(y) == (y - 1) * 365 + (y - 1) \div 4 - (y - 1) \div 100 + (y - 1) \div 400

RECURSIVE days_before_month(_, _)
days_before_month(y, m) ==
    IF m = 1 THEN 0 ELSE days_before_month(y, m - 1) + days_in_month(y, m - 1)

\* date.toordinal(): 1 for 0001-01-01
ymd2ord(d) == days_before_year(d.year) + days_before_month(d.year, d.month) + d.day

\* date.weekday(): 0 for Monday
weekday(d) == (ymd2ord(d) + 6) % 7

\* ordinal of the Monday of ISO week 1 of year y
isoweek1monday(y) ==
    The({ IF firstweekday > 3 THEN firstday - firstweekday + 7 ELSE firstday - firstweekday
        : firstday \in {ymd2ord([year |-> y, month |-> 1, day |-> 1])},
          firstweekday \in {(ymd2ord([year |-> y, month |-> 1, day |-> 1]) + 6) % 7} })

\* date.isocalendar() as (iso year, iso week)
isocalendar(d) ==
    The({ IF today < week1monday
          THEN <<d.year - 1, (today - isoweek1monday(d.year - 1)) \div 7 + 1>>
          ELSE IF (today - week1monday) \div 7 >= 52 /\ today >= isoweek1monday(d.year + 1)
          THEN <<d.year + 1, 1>>
          ELSE <<d.year, (today - week1monday) \div 7 + 1>>
        : today \in {ymd2ord(d)}, week1monday \in {isoweek1monday(d.year)} })

is_digits(s) == s # <<>> /\ \A k \in 1..Len(s) : s[k] \in Digits

\* parse_date(s) of _flow_timetable_week: datetime.strptime(s, "%Y-%m-%d").date(),
\* None for a string that does not parse
NoDate == [ok |-> FALSE, year |-> 0, month |-> 0, day |-> 0]

parse_date(s) ==
    The({ IF Len(parts) # 3 THEN NoDate
          ELSE IF ~(is_digits(parts[1]) /\ Len(parts[1]) = 4) THEN NoDate
          ELSE IF ~(is_digits(parts[2]) /\ Len(parts[2]) <= 2) THEN NoDate
          ELSE IF ~(is_digits(parts[3]) /\ Len(parts[3]) <= 2) THEN NoDate
          ELSE The({ IF y < 1 \/ m < 1 \/ m > 12 \/ d < 1 THEN NoDate
                     ELSE IF d > days_in_month(y, m) THEN NoDate
                     ELSE [ok |-> TRUE, year |-> y, month |-> m, day |-> d]
                   : y \in {digits_value(parts[1], 0)}, m \in {digits_value(parts[2], 0)},
                     d \in {digits_value(parts[3], 0)} })
        : parts \in {split(s, "-")} })

(***************************************************************************)
(* interactive.py: the weekly timetable                                    *)
(***************************************************************************)
\* week_key(d)
week_key(d) == isocalendar(d)

\* a < b for two (year, week) keys
week_lt(a, b) == a[1] < b[1] \/ (a[1] = b[1] /\ a[2] < b[2])

\* sorted(S) of a set of (year, week) keys
RECURSIVE sorted_weeks(_)
sorted_weeks(S) ==
    IF S = {} THEN <<>>
    ELSE The({ <<m>> \o sorted_weeks(S \ {m})
             : m \in {CHOOSE x \in S : \A y \in S \ {x} : week_lt(x, y)} })

\* step 1 of _flow_timetable_week: the weeks of the events whose date parses
available_weeks(evs) ==
    sorted_weeks({ week_key(parse_date(safe_str(evs[k].date)))
                   : k \in { l \in 1..Len(evs) : parse_date(safe_str(evs[l].date)).ok } })

\* step 3: the events of the week yw
week_events(evs, yw) ==
    SelectSeq(evs, LAMBDA ev :
        \E dd \in {parse_date(safe_str(ev.date))} : dd.ok /\ week_key(dd) = yw)

WeekdayNames == <<"Mon", "Tue", "Wed", "Thu", "Fri", "Sat", "Sun">>

\* weekday_short(d)
weekday_short(d) == WeekdayNames[weekday(d) + 1]

GridDays == {"Mon", "Tue", "Wed", "Thu", "Fri", "Sat"}

\* step 5: the buckets of the Mon-Sat grid for the events of the week
week_buckets(wk) ==
    The({ [name \in GridDays |->
              SelectSeq(ordered, LAMBDA ev :
                  \E dd \in {parse_date(safe_str(ev.date))} :
                      dd.ok /\ weekday_short(dd) = name)]
        : ordered \in {sort_by_date_start(wk)} })

\* one pass of the loop of _flow_timetable_week for the week typed as pick
\* (a number out of range shows the first week)
timetable_week(evs, pick) ==
    The({ The({ [week |-> yw, buckets |-> week_buckets(week_events(evs, yw))]
              : yw \in {IF 1 <= pick /\ pick <= Len(weeks) THEN weeks[pick] ELSE weeks[1]} })
        : weeks \in {available_weeks(evs)} })

(***************************************************************************)
(* interactive.py: conflicts grouped by course pair                        *)
(***************************************************************************)
\* s <= t for two str
str_le(s, t) == s = t \/ str_lt(s, t)

\* _pair_key keeping the order of the two events
pair_key_as_found(a, b) == <<safe_key(a), safe_key(b)>>

\* _pair_key(a, b)
pair_key(a, b) ==
    The({ IF str_le(ca, cb) THEN <<ca, cb>> ELSE <<cb, ca>>
        : ca \in {safe_key(a)}, cb \in {safe_key(b)} })

\* sorted(confs, key=(date, start) of the first event)
sort_conflicts(confs) ==
    The({ [r \in 1..Len(confs) |-> confs[p[r]]]
        : p \in {sort_positions([k \in 1..Len(confs) |-> date_start_key(confs[k][1])])} })

\* the loop that fills by_pair leaving out the pairs within one course
RECURSIVE fill_by_pair_other_course(_, _)
fill_by_pair_other_course(confs, by_pair) ==
    IF confs = <<>> THEN by_pair
    ELSE The({ fill_by_pair_other_course(Tail(confs), next)
             : next \in {IF safe_key(Head(confs)[1]) = safe_key(Head(confs)[2])
                         THEN by_pair
                         ELSE The({ dict_set(by_pair, key, Append(get_list(by_pair, key), Head(confs)))
                                  : key \in {pair_key(Head(confs)[1], Head(confs)[2])} })} })

\* the loop that fills by_pair; a pair with an empty course id is skipped
RECURSIVE fill_by_pair(_, _)
fill_by_pair(confs, by_pair) ==
    IF confs = <<>> THEN by_pair
    ELSE The({ fill_by_pair(Tail(confs), next)
             : next \in {IF safe_key(Head(confs)[1]) = <<>> \/ safe_key(Head(confs)[2]) = <<>>
                         THEN by_pair
                         ELSE The({ dict_set(by_pair, key, Append(get_list(by_pair, key), Head(confs)))
                                  : key \in {pair_key(Head(confs)[1], Head(confs)[2])} })} })

\* item a comes before item b under the key (-len(item[1]), item[0])
group_lt(a, b) ==
    \/ Len(a.pairs) > Len(b.pairs)
    \/ Len(a.pairs) = Len(b.pairs) /\ tuple_lt(a.key, b.key)

\* sorted(by_pair.items(), key=lambda item: (-len(item[1]), item[0]))
RECURSIVE sorted_groups(_)
sorted_groups(S) ==
    IF S = {} THEN <<>>
    ELSE The({ <<m>> \o sorted_groups(S \ {m})
             : m \in {CHOOSE x \in S : \A y \in S \ {x} : group_lt(x, y)} })

\* pairs_sorted of _flow_conflicts for the conflict list confs
group_conflicts(confs) ==
    The({ sorted_groups({ [key |-> key, pairs |-> by_pair[key]] : key \in DOMAIN by_pair })
        : by_pair \in {fill_by_pair(confs, EmptyDict)} })

(***************************************************************************)
(* interactive.py: the agenda                                              *)
(***************************************************************************)
\* step 2 of _flow_agenda: the events by their stripped date string; an event
\* without one is left out
RECURSIVE fill_by_date(_, _)
fill_by_date(evs, by_date) ==
    IF evs = <<>> THEN by_date
    ELSE The({ fill_by_date(Tail(evs),
                            IF d = <<>> THEN by_date
                            ELSE dict_set(by_date, d, Append(get_list(by_date, d), Head(evs))))
             : d \in {strip(safe_str(Head(evs).date))} })

\* step 3: the loop over sorted_dates; a date string that does not parse is
\* left out
RECURSIVE fill_week_to_dates(_, _)
fill_week_to_dates(dates, week_to_dates) ==
    IF dates = <<>> THEN week_to_dates
    ELSE The({ fill_week_to_dates(Tail(dates),
                                  IF ~dd.ok THEN week_to_dates
                                  ELSE The({ dict_set(week_to_dates, wk,
                                                      Append(get_list(week_to_dates, wk), Head(dates)))
                                           : wk \in {week_key(dd)} }))
             : dd \in {parse_date(Head(dates))} })

\* sorted(by_date[ds], key=lambda x: _safe_str(x.get("start")))
sort_by_start(evs) ==
    The({ [r \in 1..Len(evs) |-> evs[p[r]]]
        : p \in {sort_positions([k \in 1..Len(evs) |-> <<safe_str(evs[k].start)>>])} })

\* what step 5 prints for the weeks of one page: per week its dates, per date
\* its events
agenda_weeks(weeks, week_to_dates, by_date) ==
    [w \in 1..Len(weeks) |->
        [week |-> weeks[w],
         dates |-> [d \in 1..Len(week_to_dates[weeks[w]]) |->
                       [date |-> week_to_dates[weeks[w]][d],
                        events |-> sort_by_start(by_date[week_to_dates[weeks[w]][d]])]]]]

WEEKS_PER_PAGE == 4

\* the number of weeks printed after the user loaded `pages` pages
weeks_shown(n, mode, pages) ==
    IF mode = <<"0">> THEN 0
    ELSE IF mode = <<"a">> THEN n
    ELSE IF pages * WEEKS_PER_PAGE < n THEN pages * WEEKS_PER_PAGE ELSE n

\* _flow_agenda(events) up to the end of the flow
flow_agenda(evs, mode, pages) ==
    The({ The({ agenda_weeks(SubSeq(weeks, 1, weeks_shown(Len(weeks), mode, pages)),
                             week_to_dates, by_date)
              : weeks \in {sorted_weeks(DOMAIN week_to_dates)} })
        : by_date \in {fill_by_date(evs, EmptyDict)},
          week_to_dates \in {fill_week_to_dates(sorted(DOMAIN fill_by_date(evs, EmptyDict)),
                                                EmptyDict)} })

(***************************************************************************)
(* parse.py: one Termin line, one event                                    *)
(***************************************************************************)
\* s.startswith(sub)
startswith(s, sub) == Len(sub) <= Len(s) /\ SubSeq(s, 1, Len(sub)) = sub

\* sub in s
RECURSIVE contains(_, _)
contains(s, sub) ==
    IF Len(s) < Len(sub) THEN FALSE
    ELSE startswith(s, sub) \/ contains(Tail(s), sub)

\* s.replace(sub, by) for a non-empty sub
RECURSIVE replace(_, _, _)
replace(s, sub, by) ==
    IF s = <<>> THEN <<>>
    ELSE IF startswith(s, sub) THEN by \o replace(SubSeq(s, Len(sub) + 1, Len(s)), sub, by)
    ELSE <<Head(s)>> \o replace(Tail(s), sub, by)

\* sep.join(parts)
RECURSIVE join(_, _)
join(parts, sep) ==
    IF parts = <<>> THEN <<>>
    ELSE IF Len(parts) = 1 THEN parts[1]
    ELSE parts[1] \o sep \o join(Tail(parts), sep)

\* s.split(sep, 1) for a one-character sep that occurs in s
RECURSIVE split_once(_, _, _)
split_once(s, sep, before) ==
    IF Head(s) = sep THEN <<before, Tail(s)>>
    ELSE split_once(Tail(s), sep, Append(before, Head(s)))

\* str.splitlines()
splitlines(s) ==
    The({ IF parts[Len(parts)] = <<>> THEN SubSeq(parts, 1, Len(parts) - 1) ELSE parts
        : parts \in {split(s, "\n")} })

DigitChars == <<"0", "1", "2", "3", "4", "5", "6", "7", "8", "9">>

\* the decimal digits of n, zero-padded to width w
RECURSIVE zero_padded(_, _)
zero_padded(n, w) ==
    IF w = 0 THEN <<>> ELSE Append(zero_padded(n \div 10, w - 1), DigitChars[(n % 10) + 1])

\* date.isoformat()
isoformat(d) ==
    zero_padded(d.year, 4) \o <<"-">> \o zero_padded(d.month, 2) \o <<"-">> \o zero_padded(d.day, 2)

\* datetime.strptime(s, "%d.%m.%Y").date(), NoDate for the ValueError
strptime_dmy(s) ==
    The({ IF Len(parts) # 3 THEN NoDate
          ELSE IF ~(is_digits(parts[1]) /\ Len(parts[1]) <= 2) THEN NoDate
          ELSE IF ~(is_digits(parts[2]) /\ Len(parts[2]) <= 2) THEN NoDate
          ELSE IF ~(is_digits(parts[3]) /\ Len(parts[3]) = 4) THEN NoDate
          ELSE The({ IF y < 1 \/ m < 1 \/ m > 12 \/ d < 1 THEN NoDate
                     ELSE IF d > days_in_month(y, m) THEN NoDate
                     ELSE [ok |-> TRUE, year |-> y, month |-> m, day |-> d]
                   : d \in {digits_value(parts[1], 0)}, m \in {digits_value(parts[2], 0)},
                     y \in {digits_value(parts[3], 0)} })
        : parts \in {split(s, ".")} })

Pruefung == <<"(", "P", "r", "ü", "f", "u", "n", "g", ")">>
Block == <<"B", "l", "o", "c", "k">>
Uhr == <<"U", "h", "r">>

NoEvent == [none |-> TRUE]

\* the detection of special cases with the block course looked for first
termin_kind_block_first(raw) ==
    IF contains(raw, Block)
    THEN [kind |-> "other", note |-> StrV(<<"B", "l", "o", "c", "k", " ", "c", "o", "u", "r", "s", "e">>),
          raw |-> raw]
    ELSE IF contains(raw, Pruefung)
    THEN [kind |-> "exam", note |-> StrV(<<"P", "r", "ü", "f", "u", "n", "g">>),
          raw |-> strip(replace(raw, Pruefung, <<>>))]
    ELSE [kind |-> "lecture", note |-> NoneV, raw |-> raw]

\* the detection of special cases: kind, note and the line that is parsed on
termin_kind(raw) ==
    IF contains(raw, Pruefung)
    THEN [kind |-> "exam", note |-> StrV(<<"P", "r", "ü", "f", "u", "n", "g">>),
          raw |-> strip(replace(raw, Pruefung, <<>>))]
    ELSE IF contains(raw, Block)
    THEN [kind |-> "other", note |-> StrV(<<"B", "l", "o", "c", "k", " ", "c", "o", "u", "r", "s", "e">>),
          raw |-> raw]
    ELSE [kind |-> "lecture", note |-> NoneV, raw |-> raw]

\* f"{course_id}__{date_iso}T{start.replace(':','')}"
event_id(course_id, date_iso, start) ==
    course_id \o <<"_", "_">> \o date_iso \o <<"T">> \o replace(start, <<":">>, <<>>)

\* [p.strip() for p in parts]
strip_all(parts) == [k \in 1..Len(parts) |-> strip(parts[k])]

\* parse_termin_line(line, course_id, title)
parse_termin_line(line, course_id, title) ==
    IF strip(line) = <<>> THEN NoEvent
    ELSE The({
        IF Len(parts) < 4 THEN NoEvent
        ELSE IF ~date.ok THEN NoEvent
        ELSE IF ~contains(time_str, <<"-">>) THEN NoEvent
        ELSE The({ [none |-> FALSE,
                    event_id |-> event_id(course_id, isoformat(date), se[1]),
                    course_id |-> course_id,
                    title |-> title,
                    kind |-> k.kind,
                    date |-> isoformat(date),
                    start |-> se[1],
                    end |-> se[2],
                    location |-> strip(join(SubSeq(parts, 4, Len(parts)), <<",">>)),
                    note |-> k.note]
                 : se \in {strip_all(split_once(time_str, "-", <<>>))} })
        : k \in {termin_kind(strip(line))},
          parts \in {strip_all(split(termin_kind(strip(line)).raw, ","))},
          date \in {IF Len(strip_all(split(termin_kind(strip(line)).raw, ","))) < 4 THEN NoDate
                    ELSE strptime_dmy(strip_all(split(termin_kind(strip(line)).raw, ","))[2])},
          time_str \in {IF Len(strip_all(split(termin_kind(strip(line)).raw, ","))) < 4 THEN <<>>
                        ELSE strip(replace(strip_all(split(termin_kind(strip(line)).raw, ","))[3],
                                           Uhr, <<>>))} })

\* the loop of parse_course_html over the lines of the Termin/e block
RECURSIVE course_events(_, _, _, _)
course_events(lines, course_id, title, out) ==
    IF lines = <<>> THEN out
    ELSE The({ course_events(Tail(lines), course_id, title,
                             IF ev.none THEN out ELSE Append(out, ev))
             : ev \in {parse_termin_line(Head(lines), course_id, title)} })

\* parse_course_html(html, source_url, course_id): the events of one course
\* page, whose Termin/e cell holds termin_block (None when there is none)
parse_course_html(page, course_id) ==
    IF page.termin_block.tag # "str" \/ page.termin_block.s = <<>> THEN <<>>
    ELSE course_events(splitlines(page.termin_block.s), course_id, page.title, <<>>)

\* the loop of parse_all over the cached pages sorted by file name: the
\* events written to events.json
RECURSIVE parse_all(_, _, _)
parse_all(stems, raw_dir, out) ==
    IF stems = <<>> THEN out
    ELSE parse_all(Tail(stems), raw_dir, out \o parse_course_html(raw_dir[Head(stems)], Head(stems)))

(***************************************************************************)
(* export_ics.py                                                           *)
(***************************************************************************)
\* _ics_escape(text)
ics_escape(text) ==
    replace(replace(replace(replace(replace(text,
        <<"\\">>, <<"\\", "\\">>),
        <<"\r", "\n">>, <<"\\", "n">>),
        <<"\n">>, <<"\\", "n">>),
        <<";">>, <<"\\", ";">>),
        <<",">>, <<"\\", ",">>)

NoDateTime == [ok |-> FALSE, year |-> 0, month |-> 0, day |-> 0, hour |-> 0, minute |-> 0]

\* datetime.strptime(s, "%Y-%m-%d %H:%M") for a date and a time without
\* blanks inside, NoDateTime for the ValueError
strptime_ymd_hm(s) ==
    The({ IF Len(parts) # 2 THEN NoDateTime
          ELSE The({ IF ~d.ok \/ Len(hm) # 2 THEN NoDateTime
                     ELSE IF ~(is_digits(hm[1]) /\ Len(hm[1]) <= 2) THEN NoDateTime
                     ELSE IF ~(is_digits(hm[2]) /\ Len(hm[2]) <= 2) THEN NoDateTime
                     ELSE IF digits_value(hm[1], 0) > 23 \/ digits_value(hm[2], 0) > 59
                     THEN NoDateTime
                     ELSE [ok |-> TRUE, year |-> d.year, month |-> d.month, day |-> d.day,
                           hour |-> digits_value(hm[1], 0), minute |-> digits_value(hm[2], 0)]
                   : d \in {parse_date(parts[1])}, hm \in {split(parts[2], ":")} })
        : parts \in {split(s, " ")} })

\* _dt_local(date, time): [ok |-> FALSE] for the ValueError
dt_local(date_yyyy_mm_dd, time_hh_mm) ==
    The({ IF ~dt.ok THEN [ok |-> FALSE, s |-> <<>>]
          ELSE [ok |-> TRUE,
                s |-> zero_padded(dt.year, 4) \o zero_padded(dt.month, 2) \o zero_padded(dt.day, 2)
                      \o <<"T">> \o zero_padded(dt.hour, 2) \o zero_padded(dt.minute, 2)
                      \o <<"0", "0">>]
        : dt \in {strptime_ymd_hm(date_yyyy_mm_dd \o <<" ">> \o time_hh_mm)} })

\* str(ev.get(key, "")).strip()
str_field(v) == strip(py_str(get(v, StrV(<<>>))))

IcsLine(name, value) == [name |-> name, value |-> value]

\* the check of date, start and end with the end left unchecked
ics_skipped_end_unchecked(date, start, end) ==
    \/ date = <<>> \/ start = <<>>
    \/ ~dt_local(date, start).ok

\* the event is skipped: a field is empty or _dt_local raises ValueError
ics_skipped(date, start, end) ==
    \/ date = <<>> \/ start = <<>> \/ end = <<>>
    \/ ~dt_local(date, start).ok
    \/ ~dt_local(date, end).ok

\* the lines of one VEVENT
vevent_lines(ev) ==
    The({ <<IcsLine("BEGIN", <<"V", "E", "V", "E", "N", "T">>),
            IcsLine("UID", ics_escape(IF eid # <<>> THEN eid
                                      ELSE course_id \o <<"-">> \o dtstart)),
            IcsLine("DTSTAMP", <<"n", "o", "w">>),
            IcsLine("DTSTART", dtstart),
            IcsLine("DTEND", IF dt_local(str_field(ev.date), str_field(ev.end)).ok
                             THEN dt_local(str_field(ev.date), str_field(ev.end)).s
                             ELSE <<>>),
            IcsLine("SUMMARY",
                    ics_escape(IF course_id # <<>> \/ title # <<>>
                               THEN strip(course_id \o <<" ">> \o title)
                               ELSE <<"M", "y", "S", "c", "h", "e", "d", "u", "l", "e", " ",
                                      "E", "v", "e", "n", "t">>))>>
          \o (IF location # <<>> THEN <<IcsLine("LOCATION", ics_escape(location))>> ELSE <<>>)
          \o (IF ev.note.tag = "str" /\ strip(ev.note.s) # <<>>
              THEN <<IcsLine("DESCRIPTION", ics_escape(strip(ev.note.s)))>> ELSE <<>>)
          \o <<IcsLine("END", <<"V", "E", "V", "E", "N", "T">>)>>
        : course_id \in {str_field(ev.course_id)}, title \in {str_field(ev.title)},
          location \in {str_field(ev.location)}, eid \in {str_field(ev.event_id)},
          dtstart \in {dt_local(str_field(ev.date), str_field(ev.start)).s} })

\* the loop of export_events_to_ics over the events
RECURSIVE ics_events(_, _, _)
ics_events(evs, lines, count) ==
    IF evs = <<>> THEN [lines |-> lines, count |-> count]
    ELSE IF ics_skipped(str_field(Head(evs).date), str_field(Head(evs).start),
                        str_field(Head(evs).end))
    THEN ics_events(Tail(evs), lines, count)
    ELSE ics_events(Tail(evs), lines \o vevent_lines(Head(evs)), count + 1)

\* export_events_to_ics(events, out_path): the lines of the file written and
\* the number returned
export_events_to_ics(evs) ==
    The({ [lines |-> r.lines \o <<IcsLine("END", <<"V", "C", "A", "L", "E", "N", "D", "A", "R">>)>>,
           count |-> r.count]
        : r \in {ics_events(evs,
                            <<IcsLine("BEGIN", <<"V", "C", "A", "L", "E", "N", "D", "A", "R">>),
                              IcsLine("VERSION", <<"2", ".", "0">>),
                              IcsLine("PRODID", <<"-", "/", "/", "M", "y", "S", "c", "h", "e", "d",
                                                  "u", "l", "e", "/", "/", "E", "N">>),
                              IcsLine("CALSCALE", <<"G", "R", "E", "G", "O", "R", "I", "A", "N">>)>>,
                            0)} })

(***************************************************************************)
(* interactive.py: the update-data flow                                    *)
(***************************************************************************)
\* the session's indexes after an update that adds the new courses to the old
rebuild_indexes_merge(cat, old) ==
    Indexes(old.courses \o build_indexes(cat).courses,
            [k \in DOMAIN old.course_by_id \cup DOMAIN build_indexes(cat).course_by_id |->
                IF k \in DOMAIN build_indexes(cat).course_by_id
                THEN build_indexes(cat).course_by_id[k] ELSE old.course_by_id[k]],
            [k \in DOMAIN old.events_by_course_id \cup DOMAIN build_indexes(cat).events_by_course_id |->
                get_list(old.events_by_course_id, k)
                \o get_list(build_indexes(cat).events_by_course_id, k)])

\* run_interactive after _flow_update_data returned True:
\* indexes = rebuild_indexes_fn(), which cli.py binds to build_indexes
rebuild_indexes(cat, old) == build_indexes(cat)

\* the state of one run of _flow_update_data
UpdateRun(origin, runs) ==
    [name |-> "update", origin |-> origin, runs |-> runs, scrape |-> "none", parse |-> "none",
     metadata |-> FALSE, outcome |-> "running"]

(***************************************************************************)
(* cli.py and interactive.py: a selection mutation in its steps            *)
(***************************************************************************)
\* the set written by a caller that forgets what it loaded
mutated_selection_alone(kind, cid, loaded) ==
    IF kind \in {"cli_add", "flow_add"} THEN {cid} ELSE {}

\* selected.add(cid) or selected.remove(cid) on the loaded set
mutated_selection(kind, cid, loaded) ==
    IF kind \in {"cli_add", "flow_add"} THEN loaded \cup {cid} ELSE loaded \ {cid}

\* the caller saves: an add of an id that is not in its set, a remove of one
\* that is
caller_saves(kind, cid, loaded) ==
    IF kind \in {"cli_add", "flow_add"} THEN cid \notin loaded ELSE cid \in loaded

(***************************************************************************)
(* Inputs of find_conflicts                                                *)
(***************************************************************************)
MaxEvents == 3

T1000 == <<"1", "0", ":", "0", "0">>
T1000p == <<" ", "1", "0", ":", "0", "0">>
T1030 == <<"1", "0", ":", "3", "0">>
T1100 == <<"1", "1", ":", "0", "0">>
T1200 == <<"1", "2", ":", "0", "0">>
T2400 == <<"2", "4", ":", "0", "0">>
TNoColon == <<"1", "0", "3", "0">>

Day1 == <<"1">>
Day1p == <<"1", " ">>
Day2 == <<"2">>

\* (start, end) of events the engine keeps
GoodSpans ==
    { <<StrV(T1000p), StrV(T1030)>>,
      <<StrV(T1030), StrV(T1100)>>,
      <<StrV(T1000), StrV(T1100)>>,
      <<StrV(T1030), StrV(T1200)>> }

\* two of them that overlap
OverlapSpans ==
    { <<StrV(T1000), StrV(T1100)>>,
      <<StrV(T1030), StrV(T1200)>> }

\* (start, end) with end = start, end < start, hour 24, start None,
\* start without ':' and no end
BadSpans ==
    { <<StrV(T1030), StrV(T1030)>>,
      <<StrV(T1100), StrV(T1000)>>,
      <<StrV(T1000), StrV(T2400)>>,
      <<NoneV, StrV(T1100)>>,
      <<StrV(TNoColon), AbsentV>> }

EventsOn(d, spans) == { [date |-> d, start |-> t[1], end |-> t[2]] : t \in spans }

\* every span on one date; overlapping spans on a second date, on the first
\* date written with a trailing blank and on a None date; one event with no
\* date key
EventPool ==
    EventsOn(StrV(Day1), GoodSpans \cup BadSpans)
    \cup EventsOn(StrV(Day1p), OverlapSpans)
    \cup EventsOn(StrV(Day2), OverlapSpans)
    \cup EventsOn(NoneV, OverlapSpans)
    \cup EventsOn(AbsentV, {<<StrV(T1000), StrV(T1100)>>})

EventLists == UNION { [1..n -> EventPool] : n \in 0..MaxEvents }

(***************************************************************************)
(* Inputs of the selection store                                           *)
(***************************************************************************)
MaxIds == 2
MaxStored == 3

IdB == <<"b">>
IdPadA == <<" ", "a">>
IdAPad == <<"A", " ">>
IdAb == <<"a", "b">>
IdBlank == <<" ">>

\* ids as callers and users type them
RawIds == {IdB, IdPadA, IdAPad, IdAb, IdBlank}

\* the iterables handed to save_selected_course_ids
IdCollections == UNION { [1..n -> RawIds] : n \in 0..MaxIds }

\* entries of a stored selected_course_ids list: strings, a number, null
StoredEntries == {JStr(IdB), JStr(IdPadA), JStr(IdAPad), JStr(IdBlank), JNum, JNull}

StoredLists(n) == UNION { [1..m -> StoredEntries] : m \in 0..n }

\* records with a selected_course_ids list, alone or beside another field
RecordFiles(n) ==
    { TextFile(json_dumps(JDict(<< <<"selected_course_ids", JList(l)>> >>))) : l \in StoredLists(n) }
    \cup { TextFile(json_dumps(JDict(<< <<"version", JNum>>,
                                        <<"selected_course_ids", JList(l)>>,
                                        <<"note", JList(<<JStr(IdB)>>)>> >>))) : l \in StoredLists(n) }

\* missing and corrupt stores: no file, unreadable, not UTF-8, empty text,
\* truncated text, a top-level list, string or null, a record without the
\* list, a record whose selected_course_ids is a string, null or a record
OddFiles ==
    { MissingFile, UnreadableFile, UndecodableFile,
      TextFile(<<>>),
      TextFile(<<Tk("{"), TkStr("selected_course_ids"), Tk(":"), Tk("["), TkStr(IdB)>>),
      TextFile(json_dumps(JList(<<JStr(IdB)>>))),
      TextFile(json_dumps(JStr(IdB))),
      TextFile(json_dumps(JNull)),
      TextFile(json_dumps(JDict(<<>>))),
      TextFile(json_dumps(JDict(<< <<"version", JNum>> >>))),
      TextFile(json_dumps(JDict(<< <<"selected_course_ids", JStr(IdB)>> >>))),
      TextFile(json_dumps(JDict(<< <<"selected_course_ids", JNull>> >>))),
      TextFile(json_dumps(JDict(<< <<"selected_course_ids", JDict(<< <<"b", JNum>> >>)>> >>))) }

NotSaved == [set |-> FALSE, ids |-> <<>>]
Saved(ids) == [set |-> TRUE, ids |-> ids]

StoreIdle ==
    /\ file = MissingFile
    /\ selected = {}
    /\ sess_pc = "off"
    /\ op = "init"
    /\ arg = <<>>
    /\ result = Ok({})
    /\ saved_ids = NotSaved

ConflictsIdle ==
    /\ events = <<>>
    /\ conflicts = <<>>
    /\ fc_exc = "none"
    /\ fc_done = FALSE

D0105 == <<"2", "0", "2", "6", "-", "0", "1", "-", "0", "5">>
D0106 == <<"2", "0", "2", "6", "-", "0", "1", "-", "0", "6">>

IdA == <<"A">>
IdBU == <<"B">>

Course(cid) == [course_id |-> cid, title |-> NoneV]
Event(eid, cid, date, start, end) ==
    [event_id |-> eid, course_id |-> cid, date |-> date, start |-> start, end |-> end]

NoCatalog == [exists |-> FALSE, courses |-> <<>>, events |-> <<>>]
Catalog(courses, evs) == [exists |-> TRUE, courses |-> courses, events |-> evs]
NoIndexes == Indexes(<<>>, EmptyDict, EmptyDict)
NoQuery == [name |-> "init"]

QueriesIdle ==
    /\ catalog = NoCatalog
    /\ indexes = NoIndexes
    /\ query = NoQuery
    /\ view = <<>>

(***************************************************************************)
(* The storage functions as a state machine: a caller that loads and saves *)
(***************************************************************************)
InitStorage ==
    /\ ConflictsIdle
    /\ QueriesIdle
    /\ file \in OddFiles \cup RecordFiles(MaxStored)
    /\ selected = {}
    /\ sess_pc = "off"
    /\ op = "init"
    /\ arg = <<>>
    /\ result = Ok({})
    /\ saved_ids = NotSaved

\* load_selected_course_ids(path)
Load ==
    /\ op' = "load"
    /\ result' = load_selected_course_ids(file)
    /\ UNCHANGED <<file, selected, sess_pc, arg, saved_ids>>
    /\ UNCHANGED cvars
    /\ UNCHANGED qvars

\* save_selected_course_ids(ids, path)
Save ==
    \E ids \in IdCollections :
        /\ op' = "save"
        /\ file' = save_selected_course_ids(ids)
        /\ saved_ids' = Saved(ids)
        /\ result' = Ok({})
        /\ UNCHANGED <<selected, sess_pc, arg>>
        /\ UNCHANGED cvars
    /\ UNCHANGED qvars

NextStorage == Load \/ Save

SpecStorage == InitStorage /\ [][NextStorage]_vars

(***************************************************************************)
(* The selection as a state machine: CLI commands and one interactive      *)
(* session, each step running from one prompt or command to the next       *)
(***************************************************************************)
MaxStoredSel == 2

\* the course_id fields of the courses the session's search can list
CatalogCourseIds == {StrV(IdB), StrV(IdPadA), StrV(IdAb), NoneV}

\* processed data with the courses of CatalogCourseIds
SessionCatalog ==
    Catalog(<<Course(StrV(IdB)), Course(StrV(IdPadA)), Course(StrV(IdAb)), Course(NoneV)>>,
            <<Event(AbsentV, StrV(IdB), StrV(D0105), StrV(T1030), StrV(T1200)),
              Event(AbsentV, StrV(IdPadA), StrV(D0105), StrV(T1000), StrV(T1100))>>)

SessionCatalogs == {NoCatalog, SessionCatalog}

\* data/processed after _flow_update_data ended with outcome: rewritten by a
\* completed parse, possibly incomplete after a failed one, else untouched
update_catalogs(cat, outcome) ==
    IF outcome = "done" THEN SessionCatalogs \ {NoCatalog}
    ELSE IF outcome = "parse_failed" THEN SessionCatalogs
    ELSE {cat}

InitSelection ==
    /\ ConflictsIdle
    /\ file \in OddFiles \cup RecordFiles(MaxStoredSel)
    /\ selected = {}
    /\ sess_pc = "off"
    /\ op = "init"
    /\ arg = <<>>
    /\ result = Ok({})
    /\ saved_ids = NotSaved
    /\ catalog \in SessionCatalogs
    /\ indexes = NoIndexes
    /\ query = NoQuery
    /\ view = <<>>

\* myschedule search <text>
CmdSearch ==
    \E text \in RawIds :
        /\ op' = "cli_search"
        /\ arg' = text
        /\ result' = cmd_search(text)
        /\ UNCHANGED <<file, selected, sess_pc, saved_ids>>
        /\ UNCHANGED cvars
        /\ UNCHANGED qvars

\* myschedule add <course_id>
CmdAdd ==
    \E a \in RawIds :
        \E r \in {cmd_add(a, file)} :
            /\ op' = "cli_add"
            /\ arg' = a
            /\ result' = r.result
            /\ file' = r.file
            /\ saved_ids' = IF r.saved THEN Saved(iter(load_selected_course_ids(file).val
                                                      \cup {upper(strip(a))}))
                            ELSE saved_ids
            /\ UNCHANGED <<selected, sess_pc>>
            /\ UNCHANGED cvars
            /\ UNCHANGED qvars

\* myschedule remove <course_id>
CmdRemove ==
    \E a \in RawIds :
        \E r \in {cmd_remove(a, file)} :
            /\ op' = "cli_remove"
            /\ arg' = a
            /\ result' = r.result
            /\ file' = r.file
            /\ saved_ids' = IF r.saved THEN Saved(iter(load_selected_course_ids(file).val
                                                      \ {upper(strip(a))}))
                            ELSE saved_ids
            /\ UNCHANGED <<selected, sess_pc>>
            /\ UNCHANGED cvars
            /\ UNCHANGED qvars

\* myschedule conflicts and myschedule export <out>: the selection and the
\* events the command works on
CmdQuery ==
    \E name \in {"cli_conflicts", "cli_export"} :
        /\ op' = name
        /\ arg' = <<>>
        /\ result' = cmd_query(file, catalog)
        /\ UNCHANGED <<file, selected, sess_pc, saved_ids>>
        /\ UNCHANGED cvars
        /\ UNCHANGED qvars

\* top of the main menu loop of run_interactive with the indexes ix: load the
\* selection, collect its events, show the menu and wait for the choice
MenuPass(ix) ==
    /\ \E ids \in {menu_selected(file)} :
        /\ selected' = ids
        /\ view' = selected_events(ids, ix.events_by_course_id)
    /\ sess_pc' = "menu"

\* myschedule interactive: build_indexes, then run_interactive: without
\* processed data the update is offered (go = "0" or "n" declines) and the
\* session ends unless it completes
RunInteractive ==
    /\ sess_pc = "off"
    /\ op' = "run_interactive"
    /\ arg' = <<>>
    /\ \/ /\ catalog.exists
          /\ indexes' = build_indexes(catalog)
          /\ MenuPass(build_indexes(catalog))
          /\ result' = CmdResult(0, "menu")
          /\ UNCHANGED catalog
       \/ /\ ~catalog.exists
          /\ indexes' = build_indexes(catalog)
          /\ result' = CmdResult(0, "declined")
          /\ UNCHANGED <<catalog, selected, sess_pc, view>>
       \/ /\ ~catalog.exists
          /\ \E outcome \in UpdateOutcomes : \E cat \in update_catalogs(catalog, outcome) :
              /\ catalog' = cat
              /\ result' = CmdResult(0, outcome)
              /\ IF outcome = "done"
                 THEN indexes' = build_indexes(cat) /\ MenuPass(build_indexes(cat))
                 ELSE indexes' = build_indexes(catalog) /\ UNCHANGED <<selected, sess_pc, view>>
    /\ file' = update_store(file)
    /\ UNCHANGED <<saved_ids, query>>
    /\ UNCHANGED cvars

\* main menu, choice 0
MenuExit ==
    /\ sess_pc = "menu"
    /\ sess_pc' = "off"
    /\ op' = "menu_exit"
    /\ arg' = <<>>
    /\ result' = CmdResult(0, "bye")
    /\ UNCHANGED <<file, selected, saved_ids>>
    /\ UNCHANGED cvars
    /\ UNCHANGED qvars

\* main menu, choice 1: _flow_search_add is entered
MenuAdd ==
    /\ sess_pc = "menu"
    /\ sess_pc' = "add"
    /\ op' = "menu_add"
    /\ arg' = <<>>
    /\ result' = CmdResult(0, "search")
    /\ UNCHANGED <<file, selected, saved_ids>>
    /\ UNCHANGED cvars
    /\ UNCHANGED qvars

\* main menu, choice 3: _flow_remove is entered; it returns at once when
\* nothing is selected
MenuRemove ==
    /\ sess_pc = "menu"
    /\ IF selected = {} THEN MenuPass(indexes)
       ELSE sess_pc' = "remove" /\ UNCHANGED <<selected, view>>
    /\ op' = "menu_remove"
    /\ arg' = <<>>
    /\ result' = CmdResult(0, IF selected = {} THEN "no courses" ELSE "pick")
    /\ UNCHANGED <<file, saved_ids, catalog, indexes, query>>
    /\ UNCHANGED cvars

\* main menu, a view (choices 2, 4, 5, 6, 7) or an unrecognized choice: back
\* to the top of the loop
MenuOther ==
    /\ sess_pc = "menu"
    /\ MenuPass(indexes)
    /\ op' = "menu_other"
    /\ arg' = <<>>
    /\ \E choice \in {"view", "invalid choice"} : result' = CmdResult(0, choice)
    /\ UNCHANGED <<file, saved_ids, catalog, indexes, query>>
    /\ UNCHANGED cvars

\* main menu, choice 8: _flow_update_data, the rebuild of the indexes when it
\* returns True, and the top of the loop
MenuUpdate ==
    /\ sess_pc = "menu"
    /\ op' = "menu_update"
    /\ arg' = <<>>
    /\ \E outcome \in UpdateOutcomes : \E cat \in update_catalogs(catalog, outcome) :
        /\ catalog' = cat
        /\ result' = CmdResult(0, outcome)
        /\ indexes' = IF outcome = "done" THEN build_indexes(cat) ELSE indexes
        /\ MenuPass(IF outcome = "done" THEN build_indexes(cat) ELSE indexes)
    /\ file' = update_store(file)
    /\ UNCHANGED <<saved_ids, query>>
    /\ UNCHANGED cvars

\* _flow_search_add: 0 at the search or at the number prompt
FlowAddBack ==
    /\ sess_pc = "add"
    /\ MenuPass(indexes)
    /\ op' = "flow_add_back"
    /\ arg' = <<>>
    /\ result' = CmdResult(0, "menu")
    /\ UNCHANGED <<file, saved_ids, catalog, indexes, query>>
    /\ UNCHANGED cvars

\* _flow_search_add: blank search, no match, blank, non-numeric or out-of-range
\* number: the loop starts over
FlowAddRetry ==
    /\ sess_pc = "add"
    /\ op' = "flow_add_retry"
    /\ arg' = <<>>
    /\ \E why \in {"no matches", "not a number", "out of range"} :
        result' = CmdResult(0, why)
    /\ UNCHANGED <<file, selected, sess_pc, saved_ids>>
    /\ UNCHANGED cvars
    /\ UNCHANGED qvars

\* _flow_search_add: a listed course is picked; has_pairs is whether
\* _conflicts_if_added finds pairs, ans the final answer to "Add anyway?"
FlowAddPick ==
    /\ sess_pc = "add"
    /\ \E k \in 1..Len(indexes.courses), ans \in {"y", "n"},
          has_pairs \in (IF selected = {} THEN {FALSE} ELSE BOOLEAN) :
        LET c == indexes.courses[k].course_id
            cid == upper(strip(safe_str(c)))
            adds == cid # <<>> /\ cid \notin selected /\ (has_pairs => ans = "y")
        IN  /\ op' = "flow_add"
            /\ arg' = safe_str(c)
            /\ selected' = IF adds THEN selected \cup {cid} ELSE selected
            /\ file' = IF adds THEN flow_save(file, selected \cup {cid}) ELSE file
            /\ saved_ids' = IF adds THEN Saved(iter(selected \cup {cid})) ELSE saved_ids
            /\ result' = CmdResult(0, IF cid = <<>> THEN "invalid"
                                      ELSE IF cid \in selected THEN "already"
                                      ELSE IF adds THEN "added" ELSE "not added")
            /\ sess_pc' = IF cid = <<>> THEN "add" ELSE "add_more"
    /\ UNCHANGED cvars
    /\ UNCHANGED qvars

\* _flow_search_add: answer to "Add another course?"
FlowAddMore ==
    /\ sess_pc = "add_more"
    /\ \E more \in {"y", "n"} :
        /\ IF more = "n" THEN MenuPass(indexes)
           ELSE sess_pc' = "add" /\ UNCHANGED <<selected, view>>
        /\ result' = CmdResult(0, more)
    /\ op' = "flow_add_more"
    /\ arg' = <<>>
    /\ UNCHANGED <<file, saved_ids, catalog, indexes, query>>
    /\ UNCHANGED cvars

\* _flow_remove: blank at the number prompt
FlowRemoveBack ==
    /\ sess_pc = "remove"
    /\ MenuPass(indexes)
    /\ op' = "flow_remove_back"
    /\ arg' = <<>>
    /\ result' = CmdResult(0, "menu")
    /\ UNCHANGED <<file, saved_ids, catalog, indexes, query>>
    /\ UNCHANGED cvars

\* _flow_remove: a text that is not a number is typed
FlowRemoveRetry ==
    /\ sess_pc = "remove"
    /\ op' = "flow_remove"
    /\ arg' = <<>>
    /\ result' = CmdResult(0, "not a number")
    /\ UNCHANGED <<file, selected, sess_pc, saved_ids>>
    /\ UNCHANGED cvars
    /\ UNCHANGED qvars

\* _flow_remove: a number is typed
FlowRemovePick ==
    /\ sess_pc = "remove"
    /\ \E idx \in 0..(Cardinality(selected) + 1) :
        LET ids == sorted(selected)
            valid == 1 <= idx /\ idx <= Len(ids)
            cid == ids[idx]
        IN  /\ op' = "flow_remove"
            /\ arg' = IF valid THEN cid ELSE <<>>
            /\ selected' = IF valid THEN selected \ {cid} ELSE selected
            /\ file' = IF valid THEN flow_save(file, selected \ {cid}) ELSE file
            /\ saved_ids' = IF valid THEN Saved(iter(selected \ {cid})) ELSE saved_ids
            /\ result' = CmdResult(0, IF valid THEN "removed" ELSE "out of range")
            /\ sess_pc' = IF valid THEN "remove_more" ELSE "remove"
    /\ UNCHANGED cvars
    /\ UNCHANGED qvars

\* _flow_remove: answer to "Remove another course?"; the loop ends when
\* nothing is left
FlowRemoveMore ==
    /\ sess_pc = "remove_more"
    /\ \E more \in {"y", "n"} :
        /\ IF more = "n" \/ selected = {} THEN MenuPass(indexes)
           ELSE sess_pc' = "remove" /\ UNCHANGED <<selected, view>>
        /\ result' = CmdResult(0, more)
    /\ op' = "flow_remove_more"
    /\ arg' = <<>>
    /\ UNCHANGED <<file, saved_ids, catalog, indexes, query>>
    /\ UNCHANGED cvars

NextSelection ==
    \/ CmdSearch
    \/ CmdAdd
    \/ CmdRemove
    \/ CmdQuery
    \/ RunInteractive
    \/ MenuExit
    \/ MenuAdd
    \/ MenuRemove
    \/ MenuOther
    \/ MenuUpdate
    \/ FlowAddBack
    \/ FlowAddRetry
    \/ FlowAddPick
    \/ FlowAddMore
    \/ FlowRemoveBack
    \/ FlowRemoveRetry
    \/ FlowRemovePick
    \/ FlowRemoveMore

SpecSelection == InitSelection /\ [][NextSelection]_vars

(***************************************************************************)
(* The conflict engine as a state machine                                  *)
(***************************************************************************)
InitConflicts ==
    /\ events \in EventLists
    /\ conflicts = <<>>
    /\ fc_exc = "none"
    /\ fc_done = FALSE
    /\ StoreIdle
    /\ QueriesIdle

FindConflicts ==
    /\ ~fc_done
    /\ \E r \in {find_conflicts(events)} :
        /\ fc_exc' = r.exc
        /\ conflicts' = IF r.exc = "none" THEN r.val ELSE <<>>
    /\ fc_done' = TRUE
    /\ UNCHANGED events
    /\ UNCHANGED svars
    /\ UNCHANGED qvars

NextConflicts == FindConflicts

SpecConflicts == InitConflicts /\ [][NextConflicts]_vars

(***************************************************************************)
(* Properties of the conflict engine                                       *)
(***************************************************************************)
Positions == 1..Len(events)

\* a field that is absent, None, empty or blank
Missing(v) == v.tag # "str" \/ strip(v.s) = <<>>

\* what the specification says of one event: whether it passes the validity
\* filter (date, start and end present, both times parse, end > start), its
\* date as the engine compares it (trimmed), and its minutes since midnight
EventView(e) ==
    The({ [usable |-> /\ ~Missing(e.date) /\ ~Missing(e.start) /\ ~Missing(e.end)
                      /\ s.exc = "none" /\ t.exc = "none"
                      /\ t.val > s.val,
           date |-> [tag |-> e.date.tag, s |-> strip(e.date.s)],
           start |-> s.val,
           end |-> t.val]
        : s \in {time_to_minutes(e.start.s)}, t \in {time_to_minutes(e.end.s)} })

\* the views of the events of the argument list
Views == { [k \in Positions |-> EventView(events[k])] }

Reported(i, j) ==
    \E k \in 1..Len(conflicts) : conflicts[k] = <<i, j>> \/ conflicts[k] = <<j, i>>

HalfOpenOverlap(a, b) == a.start < b.end /\ a.end > b.start

\* C1: two events that survive the validity filter are reported as a pair
\* if and only if they have the same date and startA < endB and endA > startB.
C1_ReportedIffSameDateOverlap ==
    fc_done =>
        \A v \in Views : \A i \in Positions : \A j \in Positions :
            (i < j /\ v[i].usable /\ v[j].usable) =>
                (Reported(i, j) <=> (v[i].date = v[j].date /\ HalfOpenOverlap(v[i], v[j])))

C1_Witness ==
    /\ fc_done
    /\ Len(events) = 3
    /\ \A v \in Views :
        /\ \A i \in Positions : v[i].usable
        /\ v[2].date = v[3].date
    /\ Reported(1, 2)
    /\ ~Reported(2, 3)

\* C2: two events of one date, one ending exactly when the other starts, are
\* never reported as a conflict, whichever of the two comes first in the input.
C2_TouchingNeverReported ==
    fc_done =>
        \A v \in Views : \A i \in Positions : \A j \in Positions :
            (/\ i # j
             /\ v[i].usable /\ v[j].usable
             /\ v[i].date = v[j].date
             /\ v[i].end = v[j].start)
            => ~Reported(i, j)

C2_Witness ==
    /\ fc_done
    /\ Len(events) = 3
    /\ \A v \in Views :
        /\ \A i \in Positions : v[i].usable /\ v[i].date = v[1].date
        /\ v[1].end = v[2].start
        /\ v[3].end = v[2].start
    /\ conflicts = <<<<1, 3>>>>

\* C3: no reported pair consists of two events whose dates differ.
C3_NoPairAcrossDates ==
    fc_done =>
        \A v \in Views : \A k \in 1..Len(conflicts) :
            v[conflicts[k][1]].date = v[conflicts[k][2]].date

C3_Witness ==
    /\ fc_done
    /\ \E v \in Views : \E i \in Positions : \E j \in Positions :
        /\ i < j
        /\ v[i].usable /\ v[j].usable
        /\ v[i].date # v[j].date
        /\ HalfOpenOverlap(v[i], v[j])
        /\ ~Reported(i, j)

\* the pairs find_conflicts returns for the events at the positions keep
\* alone, as positions of the full list
PairsAlone(keep) ==
    The({ [k \in 1..Len(r.val) |-> <<keep[r.val[k][1]], keep[r.val[k][2]]>>]
        : r \in {find_conflicts([k \in 1..Len(keep) |-> events[keep[k]]])} })

\* C4: an event whose date, start or end is missing, whose start or end does
\* not parse as HH:MM, or whose end <= start appears in no returned pair; its
\* presence raises no error and does not change the pairs of the other events.
C4_UnusableEventsExcluded ==
    fc_done =>
        /\ fc_exc = "none"
        /\ \A v \in Views :
            /\ \A k \in 1..Len(conflicts) :
                v[conflicts[k][1]].usable /\ v[conflicts[k][2]].usable
            /\ conflicts = PairsAlone(SelectSeq([k \in Positions |-> k], LAMBDA k : v[k].usable))

\* C5: every unordered pair of input positions is reported at most once, and
\* in each reported pair the first event is earlier in the input list.
C5_PairsOnceInInputOrder ==
    fc_done =>
        /\ \A k \in 1..Len(conflicts) : conflicts[k][1] < conflicts[k][2]
        /\ \A k \in 1..Len(conflicts) : \A l \in 1..Len(conflicts) :
            k # l => {conflicts[k][1], conflicts[k][2]} # {conflicts[l][1], conflicts[l][2]}

C5_Witness ==
    /\ fc_done
    /\ \A v \in Views : \A i \in Positions : v[i].usable
    /\ Len(conflicts) = 3

(***************************************************************************)
(* Properties of the storage functions                                     *)
(***************************************************************************)
\* the set of trimmed, upper-cased, non-empty ids of a collection
NormIds(ids) == { upper(strip(ids[k])) : k \in 1..Len(ids) } \ {<<>>}

\* an id in canonical form: trimmed, upper case, not empty
Canonical(s) == s # <<>> /\ strip(s) = s /\ upper(s) = s

\* the decoded record of the file, and its selected_course_ids list
FileRecord == json_loads(file.text)
FileHasList ==
    /\ file.kind = "text"
    /\ FileRecord.exc = "none"
    /\ FileRecord.val.ty = "dict"
    /\ dict_get(FileRecord.val, "selected_course_ids", JNull).ty = "list"
FileList == dict_get(FileRecord.val, "selected_course_ids", JNull).items

\* C6: save_selected_course_ids followed by load_selected_course_ids returns
\* exactly the set of the trimmed, upper-cased, non-empty ids that were saved.
C6_SaveLoadRoundTrip ==
    (op = "load" /\ saved_ids.set) => result = Ok(NormIds(saved_ids.ids))

C6_Witness ==
    /\ op = "load"
    /\ saved_ids.set
    /\ Cardinality(result.val) = 2
    /\ \A k \in 1..Len(saved_ids.ids) : saved_ids.ids[k] \notin result.val

\* the store is missing or corrupt
CorruptStore ==
    \/ file.kind \in {"missing", "unreadable", "undecodable"}
    \/ FileRecord.exc # "none"
    \/ FileRecord.val.ty # "dict"
    \/ /\ dict_get(FileRecord.val, "selected_course_ids", JList(<<>>)).ty # "list"

\* C7: load_selected_course_ids never raises, and returns the empty set when
\* the file is missing, unreadable, not valid JSON, not a record at top level,
\* or has a selected_course_ids that is not a list.
C7_LoadToleratesCorruptStore ==
    op = "load" =>
        /\ result.exc = "none"
        /\ CorruptStore => result.val = {}

C7_Witness ==
    /\ op = "load"
    /\ file.kind = "text"
    /\ FileRecord.exc = "none"
    /\ FileRecord.val.ty = "list"
    /\ result = Ok({})

\* C8: after a save the persisted list is strictly ascending, every entry is
\* trimmed, upper case and non-empty, and every collection that normalizes to
\* the same id set is saved as the same content.
C8_SavedListCanonical ==
    op = "save" =>
        /\ FileHasList
        /\ \A k \in 1..Len(FileList) : FileList[k].ty = "str" /\ Canonical(FileList[k].s)
        /\ \A k \in 1..(Len(FileList) - 1) : str_lt(FileList[k].s, FileList[k + 1].s)
        /\ \A ids \in IdCollections :
            NormIds(ids) = NormIds(saved_ids.ids) => save_selected_course_ids(ids) = file

C8_Witness ==
    /\ op = "save"
    /\ Len(saved_ids.ids) = 2
    /\ Len(FileList) = 2
    /\ str_lt(upper(strip(saved_ids.ids[2])), upper(strip(saved_ids.ids[1])))
    /\ ~Canonical(saved_ids.ids[1])

\* the file reduced to its selected_course_ids list with the string entries only
ListOnlyFile ==
    TextFile(json_dumps(JDict(<< <<"selected_course_ids",
                                   JList(SelectSeq(FileList, LAMBDA x : x.ty = "str"))>> >>)))

\* C9: load_selected_course_ids reads the selected_course_ids list only: other
\* fields and non-string entries are ignored, every returned id is trimmed,
\* upper case and non-empty, and entries that differ in case or surrounding
\* white space only load as one id.
C9_LoadReadsListOnly ==
    (op = "load" /\ FileHasList) =>
        /\ result.exc = "none"
        /\ result.val = { upper(strip(FileList[k].s)) :
                          k \in {l \in 1..Len(FileList) : FileList[l].ty = "str"} } \ {<<>>}
        /\ \A id \in result.val : Canonical(id)
        /\ result = load_selected_course_ids(ListOnlyFile)

C9_Witness ==
    /\ op = "load"
    /\ FileHasList
    /\ Len(FileRecord.val.items) > 1
    /\ \E k \in 1..Len(FileList) : FileList[k].ty # "str"
    /\ Cardinality({k \in 1..Len(FileList) : FileList[k].ty = "str"}) = 2
    /\ Cardinality(result.val) = 1

(***************************************************************************)
(* Properties of the selection                                             *)
(***************************************************************************)
\* the SelectionSet a CLI command sees
StoredSelection == load_selected_course_ids(file).val

\* C10: adding an id that is already selected, in any case or white-space
\* variant, leaves the SelectionSet and the persisted record unchanged, and a
\* second add of the same id changes nothing after the first.
C10_AddIsIdempotent ==
    [][ /\ (op' = "cli_add" /\ upper(strip(arg')) \in StoredSelection)
            => (file' = file /\ load_selected_course_ids(file').val = load_selected_course_ids(file).val)
        /\ (op' = "flow_add" /\ upper(strip(arg')) \in selected)
            => (file' = file /\ selected' = selected)
        /\ (op = "cli_add" /\ op' = "cli_add" /\ upper(strip(arg')) = upper(strip(arg)))
            => (file' = file /\ load_selected_course_ids(file').val = load_selected_course_ids(file).val)
      ]_vars

C10_Witness ==
    /\ op = "cli_add"
    /\ result = CmdResult(0, "already")
    /\ ~Canonical(arg)
    /\ FileHasList
    /\ \E k \in 1..Len(FileList) : FileList[k].ty = "str" /\ ~Canonical(FileList[k].s)

\* C11: an add or remove of course id c changes at most the membership of c
\* in the SelectionSet the operation loaded: every other id is selected
\* afterwards if and only if it was selected before, and c goes from absent to
\* present (add) or from present to absent (remove) in the one write of the
\* operation.
C11_OnlyMembershipOfIdChanges ==
    [][ \A cid \in {upper(strip(arg'))} :
        /\ (op' = "cli_add" /\ result'.exc = "none") =>
            \A before \in {load_selected_course_ids(file).val},
               after \in {load_selected_course_ids(file').val} :
                /\ after \ {cid} = before \ {cid}
                /\ result'.val.outcome = "added" => (cid \notin before /\ cid \in after)
                /\ result'.val.outcome # "added" => file' = file
        /\ (op' = "cli_remove" /\ result'.exc = "none") =>
            \A before \in {load_selected_course_ids(file).val},
               after \in {load_selected_course_ids(file').val} :
                /\ after \ {cid} = before \ {cid}
                /\ result'.val.outcome = "removed" => (cid \in before /\ cid \notin after)
                /\ result'.val.outcome # "removed" => file' = file
        /\ op' = "flow_add" =>
            \A after \in {load_selected_course_ids(file').val} :
                /\ selected' \ {cid} = selected \ {cid}
                /\ result'.val.outcome = "added" =>
                    (cid \notin selected /\ cid \in selected' /\ after = selected')
                /\ result'.val.outcome # "added" => (file' = file /\ selected' = selected)
        /\ op' = "flow_remove" =>
            \A after \in {load_selected_course_ids(file').val} :
                /\ selected' \ {arg'} = selected \ {arg'}
                /\ result'.val.outcome = "removed" =>
                    (arg' \in selected /\ arg' \notin selected' /\ after = selected')
                /\ result'.val.outcome # "removed" => (file' = file /\ selected' = selected)
      ]_vars

C11_Witness ==
    /\ op = "cli_remove"
    /\ result = CmdResult(0, "removed")
    /\ ~Canonical(arg)
    /\ StoredSelection # {}

\* the steps that run _flow_update_data: main menu choice 8, and the
\* onboarding of a session without processed data
UpdateStep ==
    \/ op' = "menu_update"
    \/ op' = "run_interactive" /\ result'.val.outcome \in UpdateOutcomes

\* C15: whatever the outcome of the update-data flow (completed, failed,
\* cancelled, left with 0) and of the index rebuild that follows, the persisted
\* SelectionSet is unchanged: load() returns the same set as before the flow.
C15_UpdateKeepsSelection ==
    [][ UpdateStep =>
            /\ file' = file
            /\ load_selected_course_ids(file').val = load_selected_course_ids(file).val
            /\ saved_ids' = saved_ids
      ]_vars

C15_Witness ==
    /\ op = "menu_update"
    /\ result = CmdResult(0, "done")
    /\ StoredSelection # {}
    /\ selected = StoredSelection
    /\ indexes = build_indexes(SessionCatalog)

\* C16: no in-memory-only staging: after every add or remove completed by a
\* CLI command or an interactive flow the persisted record equals the in-memory
\* set before the next prompt or command; every pass through the interactive
\* main menu and every CLI query starts from a fresh load of the record.
C16_NoStaging ==
    [][ /\ (op' = "cli_add" /\ result' = CmdResult(0, "added")) =>
            load_selected_course_ids(file').val
                = load_selected_course_ids(file).val \cup {upper(strip(arg'))}
        /\ (op' = "cli_remove" /\ result' = CmdResult(0, "removed")) =>
            load_selected_course_ids(file').val
                = load_selected_course_ids(file).val \ {upper(strip(arg'))}
        /\ (op' = "flow_add" /\ result' = CmdResult(0, "added")) =>
            (selected' # selected /\ load_selected_course_ids(file').val = selected')
        /\ (op' = "flow_remove" /\ result' = CmdResult(0, "removed")) =>
            (selected' # selected /\ load_selected_course_ids(file').val = selected')
        /\ (sess_pc' = "menu" /\ op' \notin {"cli_search", "cli_add", "cli_remove",
                                               "cli_conflicts", "cli_export"}) =>
            selected' = load_selected_course_ids(file').val
        /\ op' \in {"cli_conflicts", "cli_export"} =>
            result'.val.selected_ids = load_selected_course_ids(file).val
      ]_vars

C16_Witness ==
    /\ op = "flow_remove"
    /\ result = CmdResult(0, "removed")
    /\ selected # {}
    /\ StoredSelection = selected
    /\ saved_ids.set

MaxCatalog == 2

\* course_id fields of the records of courses.json and events.json
CatalogIds == {StrV(IdB), StrV(IdPadA), StrV(IdAPad), StrV(IdBlank), NoneV, AbsentV}

IndexCourses == { Course(c) : c \in CatalogIds }

IndexEvents ==
    { Event(AbsentV, c, StrV(t[1]), StrV(t[2]), StrV(T1100))
      : c \in CatalogIds \ {StrV(IdBlank)},
        t \in {<<D0106, T1000>>, <<D0105, T1030>>, <<D0105, T1000>>} }

\* processed data with courses only, with events only, and none
IndexCatalogs ==
    { Catalog(cs, <<>>) : cs \in UNION { [1..n -> IndexCourses] : n \in 0..MaxCatalog } }
    \cup { Catalog(<<>>, es) : es \in UNION { [1..n -> IndexEvents] : n \in 1..MaxCatalog } }
    \cup { NoCatalog }

InitIndexes ==
    /\ ConflictsIdle
    /\ StoreIdle
    /\ catalog \in IndexCatalogs
    /\ indexes = NoIndexes
    /\ query = NoQuery
    /\ view = <<>>

\* cli.py main: the indexes every command starts with
CliBuildIndexes ==
    /\ query.name = "init"
    /\ indexes' = cli_build_indexes(catalog)
    /\ query' = [name |-> "cli_build_indexes"]
    /\ UNCHANGED <<catalog, view>>
    /\ UNCHANGED <<cvars, svars>>

\* interactive.py: build_indexes()
BuildIndexes ==
    /\ query.name = "init"
    /\ indexes' = build_indexes(catalog)
    /\ query' = [name |-> "build_indexes"]
    /\ UNCHANGED <<catalog, view>>
    /\ UNCHANGED <<cvars, svars>>

\* cli.py: _selected_events of the conflicts and export commands
CliSelectedEvents ==
    /\ query.name = "cli_build_indexes"
    /\ \E ids \in SUBSET {IdA, IdBU} :
        /\ view' = cli_selected_events(ids, indexes.events_by_course_id)
        /\ query' = [name |-> "cli_selected_events", selected_ids |-> ids]
    /\ UNCHANGED <<catalog, indexes>>
    /\ UNCHANGED <<cvars, svars>>

\* interactive.py: _selected_events at the top of the menu loop
SelectedEvents ==
    /\ query.name = "build_indexes"
    /\ \E ids \in SUBSET {IdA, IdBU} :
        /\ view' = selected_events(ids, indexes.events_by_course_id)
        /\ query' = [name |-> "selected_events", selected_ids |-> ids]
    /\ UNCHANGED <<catalog, indexes>>
    /\ UNCHANGED <<cvars, svars>>

NextIndexes == CliBuildIndexes \/ BuildIndexes \/ CliSelectedEvents \/ SelectedEvents

SpecIndexes == InitIndexes /\ [][NextIndexes]_vars

(***************************************************************************)
(* Properties of the indexes and of the selected-events view               *)
(***************************************************************************)
\* the identifier a record is to be indexed under: trimmed and upper-cased,
\* empty when the field is absent or None
NormalizedId(rec) ==
    IF rec.course_id.tag = "str" THEN upper(strip(rec.course_id.s)) ELSE <<>>

IndexedIds(recs) == { NormalizedId(recs[k]) : k \in 1..Len(recs) } \ {<<>>}

IndexesBuilt == query.name \in {"cli_build_indexes", "build_indexes"}

\* C13: every course and event record is indexed under its trimmed,
\* upper-cased course_id; records whose id is empty or missing are dropped
\* without error; of several courses with one id the later record is the one in
\* course_by_id; events_by_course_id keeps each course's events in the order of
\* the source list.
C13_IndexBuild ==
    IndexesBuilt =>
        /\ DOMAIN indexes.course_by_id = IndexedIds(catalog.courses)
        /\ \A k \in 1..Len(catalog.courses) :
            \A cid \in {NormalizedId(catalog.courses[k])} :
                (/\ cid # <<>>
                 /\ \A l \in (k + 1)..Len(catalog.courses) :
                        NormalizedId(catalog.courses[l]) # cid)
                => indexes.course_by_id[cid] = catalog.courses[k]
        /\ DOMAIN indexes.events_by_course_id = IndexedIds(catalog.events)
        /\ \A cid \in DOMAIN indexes.events_by_course_id :
            indexes.events_by_course_id[cid]
                = SelectSeq(catalog.events, LAMBDA e : NormalizedId(e) = cid)

\* number of times e occurs in the list seq
Occurrences(seq, e) == Cardinality({ k \in 1..Len(seq) : seq[k] = e })

\* (date, start) of ev is not later than (date, start) of next: ISO dates
\* order as their strings do, start times by their minutes
NotLater(ev, next) ==
    \/ str_lt(ev.date.s, next.date.s)
    \/ /\ ev.date.s = next.date.s
       /\ time_to_minutes(ev.start.s).val <= time_to_minutes(next.start.s).val

\* C14: the selected-events view of every query, CLI and interactive, is
\* exactly the union of events_by_course_id[cid] over the selected ids (ids
\* without events contribute nothing) and is in chronological order by
\* (date, start).
C14_SelectedEventsView ==
    query.name \in {"cli_selected_events", "selected_events"} =>
        /\ \A e \in IndexEvents :
            Occurrences(view, e)
                = (IF IdA \in query.selected_ids
                   THEN Occurrences(get_list(indexes.events_by_course_id, IdA), e) ELSE 0)
                  + (IF IdBU \in query.selected_ids
                     THEN Occurrences(get_list(indexes.events_by_course_id, IdBU), e) ELSE 0)
        /\ \A i \in 1..Len(view) : \A j \in 1..Len(view) :
            i < j => NotLater(view[i], view[j])

(***************************************************************************)
(* The candidate-add preview as a state machine                            *)
(***************************************************************************)
MaxPreview == 3

IdABU == <<"A", "B">>

PreviewIds == {IdA, IdBU, IdABU}

\* events of three courses: two overlapping spans on one day, one on another
PreviewEvents ==
    { Event(AbsentV, c, StrV(t[1]), StrV(t[2]), StrV(t[3]))
      : c \in {StrV(IdPadA), StrV(IdB), StrV(IdAb)},
        t \in {<<D0105, T1000, T1100>>, <<D0105, T1030, T1200>>, <<D0106, T1000, T1100>>} }

PreviewCatalogs ==
    { Catalog(<<>>, es) : es \in UNION { [1..n -> PreviewEvents] : n \in 0..MaxPreview } }

\* the orders in which a set can be iterated
Orders(S) == { q \in [1..Cardinality(S) -> S] : { q[k] : k \in 1..Cardinality(S) } = S }

\* an interactive session with its indexes built
InitPreview ==
    /\ ConflictsIdle
    /\ StoreIdle
    /\ catalog \in PreviewCatalogs
    /\ indexes = build_indexes(catalog)
    /\ query = NoQuery
    /\ view = <<>>

\* _flow_search_add: the preview for a picked course that is not selected
ConflictsIfAdded ==
    /\ query.name = "init"
    /\ \E cid \in PreviewIds : \E ids \in SUBSET (PreviewIds \ {cid}) : \E order \in Orders(ids) :
        /\ view' = conflicts_if_added(cid, ids, order, indexes.events_by_course_id)
        /\ query' = [name |-> "conflicts_if_added", candidate_cid |-> cid, selected_ids |-> ids]
    /\ UNCHANGED <<catalog, indexes>>
    /\ UNCHANGED <<cvars, svars>>

NextPreview == ConflictsIfAdded

SpecPreview == InitPreview /\ [][NextPreview]_vars

(***************************************************************************)
(* Properties of the candidate-add preview                                 *)
(***************************************************************************)
\* two events conflict: same date, startA < endB and endA > startB
Conflicting(a, b) ==
    \A va \in {EventView(a)}, vb \in {EventView(b)} :
        /\ va.usable /\ vb.usable
        /\ va.date = vb.date
        /\ HalfOpenOverlap(va, vb)

\* the conflicts between the k-th event of the candidate and the l-th event
\* of the selected course cid
CandidateConflicts ==
    { t \in (1..MaxPreview + 1) \X query.selected_ids \X (1..MaxPreview + 1) :
        /\ t[1] <= Len(get_list(indexes.events_by_course_id, query.candidate_cid))
        /\ t[3] <= Len(get_list(indexes.events_by_course_id, t[2]))
        /\ Conflicting(get_list(indexes.events_by_course_id, query.candidate_cid)[t[1]],
                       get_list(indexes.events_by_course_id, t[2])[t[3]]) }

\* C12: for a candidate course X outside the selection S the preview returns
\* exactly the conflicting pairs of one event of X and one event of a course in
\* S, each as (event of X, event of the selected course); pairs of two selected
\* events and pairs of two events of X are never returned.
C12_PreviewPairs ==
    query.name = "conflicts_if_added" =>
        /\ Len(view) = Cardinality(CandidateConflicts)
        /\ { view[k] : k \in 1..Len(view) }
            = { <<get_list(indexes.events_by_course_id, query.candidate_cid)[t[1]],
                  get_list(indexes.events_by_course_id, t[2])[t[3]]>> : t \in CandidateConflicts }
        /\ \A k \in 1..Len(view) :
            /\ safe_key(view[k][1]) = query.candidate_cid
            /\ safe_key(view[k][2]) \in query.selected_ids

C12_Witness ==
    /\ query.name = "conflicts_if_added"
    /\ Len(view) = 2
    /\ Cardinality(query.selected_ids) = 2
    /\ \E c \in query.selected_ids, d \in query.selected_ids :
        /\ c # d
        /\ c \in DOMAIN indexes.events_by_course_id
        /\ d \in DOMAIN indexes.events_by_course_id
        /\ Conflicting(indexes.events_by_course_id[c][1], indexes.events_by_course_id[d][1])

(***************************************************************************)
(* The export as a state machine                                           *)
(***************************************************************************)
MaxExport == 3

\* events.json records with no event_id, with one, and with the same one
\* followed by a blank
ExportEvents ==
    { Event(eid, c, StrV(D0105), StrV(t[1]), StrV(t[2]))
      : eid \in {AbsentV, StrV(<<"1">>), StrV(<<"1", " ">>)},
        c \in {StrV(IdB), StrV(IdPadA)},
        t \in {<<T1000, T1100>>, <<T1030, T1200>>} }

ExportCatalogs ==
    { Catalog(<<>>, es) : es \in UNION { [1..n -> ExportEvents] : n \in 0..MaxExport } }

InitExport ==
    /\ ConflictsIdle
    /\ StoreIdle
    /\ catalog \in ExportCatalogs
    /\ indexes = NoIndexes
    /\ query = NoQuery
    /\ view = NotExported

\* myschedule export <out> with the selection ids
CmdExport ==
    /\ query.name = "init"
    /\ \E ids \in SUBSET {IdA, IdBU}, out \in {IdB, IdBlank} :
        \E ix \in {cli_build_indexes(catalog)} :
            \E evs \in {cli_selected_events(ids, ix.events_by_course_id)} :
                /\ indexes' = ix
                /\ query' = [name |-> "cli_export", selected_ids |-> ids, events |-> evs]
                /\ view' = cmd_export(evs, out)
    /\ UNCHANGED catalog
    /\ UNCHANGED <<cvars, svars>>

\* main menu choice 7 of a session with the selection ids, the export
\* location being chosen
FlowExport ==
    /\ query.name = "init"
    /\ \E ids \in SUBSET {IdA, IdBU} :
        \E ix \in {build_indexes(catalog)} :
            \E evs \in {selected_events(ids, ix.events_by_course_id)} :
                /\ indexes' = ix
                /\ query' = [name |-> "flow_export", selected_ids |-> ids, events |-> evs]
                /\ view' = flow_export(evs)
    /\ UNCHANGED catalog
    /\ UNCHANGED <<cvars, svars>>

NextExport == CmdExport \/ FlowExport

SpecExport == InitExport /\ [][NextExport]_vars

(***************************************************************************)
(* Properties of the export                                                *)
(***************************************************************************)
\* the dedup key: event_id if present, else course_id|date|start|end
DedupKey(ev) ==
    IF ev.event_id.tag = "str" /\ strip(ev.event_id.s) # <<>>
    THEN <<"event_id", strip(ev.event_id.s)>>
    ELSE <<"fields", safe_str(ev.course_id), safe_str(ev.date), safe_str(ev.start),
           safe_str(ev.end)>>

\* the events of the list evs that are the first of their dedup key
FirstOfKey(evs) ==
    The({ [n \in 1..Len(keep) |-> evs[keep[n]]]
        : keep \in {SelectSeq([k \in 1..Len(evs) |-> k],
                              LAMBDA k : \A l \in 1..(k - 1) : DedupKey(evs[l]) # DedupKey(evs[k]))} })

\* C18: whenever an export is requested, from the CLI or the interactive
\* flow, the list handed to export_events_to_ics has no two events with the
\* same dedup key (event_id if present, else course_id|date|start|end); of
\* several events sharing a key the first of the selected-events view is kept.
C18_ExportDeduplicated ==
    (query.name \in {"cli_export", "flow_export"} /\ view.called) =>
        /\ \A k \in 1..Len(view.events) : \A l \in 1..Len(view.events) :
            k # l => DedupKey(view.events[k]) # DedupKey(view.events[l])
        /\ view.events = FirstOfKey(query.events)

(***************************************************************************)
(* The weekly timetable as a state machine                                 *)
(***************************************************************************)
MaxWeekEvents == 3

D1229 == <<"2", "0", "2", "5", "-", "1", "2", "-", "2", "9">>
D0104 == <<"2", "0", "2", "6", "-", "0", "1", "-", "0", "4">>
D0110 == <<"2", "0", "2", "6", "-", "0", "1", "-", "1", "0">>
D0111 == <<"2", "0", "2", "6", "-", "0", "1", "-", "1", "1">>
D0230 == <<"2", "0", "2", "6", "-", "0", "2", "-", "3", "0">>

\* dates of the events of one course: Monday 2025-12-29 and Sunday 2026-01-04
\* (ISO week 2026-W01), Monday, Saturday and Sunday of 2026-W02, a day that
\* does not exist, and None
WeekDates == {StrV(D1229), StrV(D0104), StrV(D0105), StrV(D0110), StrV(D0111), StrV(D0230), NoneV}

WeekEventPool ==
    { Event(AbsentV, StrV(IdB), d, StrV(t[1]), StrV(t[2]))
      : d \in WeekDates, t \in {<<T1000, T1100>>, <<T1030, T1200>>} }

WeekCatalogs ==
    { Catalog(<<>>, es) : es \in UNION { [1..n -> WeekEventPool] : n \in 0..MaxWeekEvents } }

NoTimetable == [week |-> <<0, 0>>, buckets |-> [name \in GridDays |-> <<>>]]

\* an interactive session with its indexes built
InitTimetable ==
    /\ ConflictsIdle
    /\ StoreIdle
    /\ catalog \in WeekCatalogs
    /\ indexes = build_indexes(catalog)
    /\ query = NoQuery
    /\ view = NoTimetable

\* main menu choice 5 of a session that has course B selected: the flow ends
\* at once without events or without a valid date, else it shows the week
\* typed as pick
TimetableWeek ==
    /\ query.name = "init"
    /\ \E evs \in {selected_events({IdBU}, indexes.events_by_course_id)} :
        \E pick \in 1..(Len(available_weeks(evs)) + 1) :
            \E shown \in {evs # <<>> /\ available_weeks(evs) # <<>>} :
                /\ query' = [name |-> "timetable_week", events |-> evs, shown |-> shown]
                /\ view' = IF shown THEN timetable_week(evs, pick) ELSE NoTimetable
    /\ UNCHANGED <<catalog, indexes>>
    /\ UNCHANGED <<cvars, svars>>

NextTimetable == TimetableWeek

SpecTimetable == InitTimetable /\ [][NextTimetable]_vars

(***************************************************************************)
(* Properties of the weekly timetable                                      *)
(***************************************************************************)
\* the calendar day of an event, if its date is one
CalendarDay(ev) == parse_date(safe_str(ev.date))

\* days since a Monday: 2026-01-05 is a Monday
DaysSinceMonday(d) == (ymd2ord(d) - ymd2ord([year |-> 2026, month |-> 1, day |-> 5])) % 7

\* the ISO 8601 week of a day: the week from Monday to Sunday that holds it,
\* numbered within the year its Thursday lies in
IsoWeek(d) ==
    The({ The({ <<y, (thursday - days_before_year(y) - 1) \div 7 + 1>>
              : y \in { z \in {d.year - 1, d.year, d.year + 1} :
                          days_before_year(z) < thursday /\ thursday <= days_before_year(z + 1) } })
        : thursday \in {ymd2ord(d) - DaysSinceMonday(d) + 3} })

DayName(d) == WeekdayNames[DaysSinceMonday(d) + 1]

\* the events of the week shown: those of the selected events whose date is a
\* day of that ISO week
InWeekShown(ev) == CalendarDay(ev).ok /\ IsoWeek(CalendarDay(ev)) = view.week

\* number of times e occurs in the grid
GridOccurrences(e) ==
    Occurrences(view.buckets["Mon"], e) + Occurrences(view.buckets["Tue"], e)
    + Occurrences(view.buckets["Wed"], e) + Occurrences(view.buckets["Thu"], e)
    + Occurrences(view.buckets["Fri"], e) + Occurrences(view.buckets["Sat"], e)

\* C19: the timetable of the chosen ISO (year, week) contains exactly the
\* selected events whose date parses and lies in that ISO week (Monday through
\* Sunday), each in the bucket of its weekday of the Mon-Sat grid, in (date,
\* start) order; events whose date does not parse are in no week's timetable.
C19_TimetableWeek ==
    (query.name = "timetable_week" /\ query.shown) =>
        /\ \A e \in WeekEventPool :
            GridOccurrences(e) = IF InWeekShown(e) THEN Occurrences(query.events, e) ELSE 0
        /\ \A name \in GridDays : \A k \in 1..Len(view.buckets[name]) :
            DayName(CalendarDay(view.buckets[name][k])) = name
        /\ \A name \in GridDays :
            \A i \in 1..Len(view.buckets[name]) : \A j \in 1..Len(view.buckets[name]) :
                i < j => NotLater(view.buckets[name][i], view.buckets[name][j])

(***************************************************************************)
(* The conflict overview as a state machine                                *)
(***************************************************************************)
MaxGroupEvents == 3

\* events of the courses A (written " a" and "A "), B and AB on one day
GroupEventPool ==
    { Event(AbsentV, c, StrV(D0105), StrV(t[1]), StrV(t[2]))
      : c \in {StrV(IdPadA), StrV(IdAPad), StrV(IdB), StrV(IdAb)},
        t \in {<<T1000, T1100>>, <<T1030, T1200>>} }

GroupCatalogs ==
    { Catalog(<<>>, es) : es \in UNION { [1..n -> GroupEventPool] : n \in 0..MaxGroupEvents } }

\* an interactive session with its indexes built
InitGrouping ==
    /\ ConflictsIdle
    /\ StoreIdle
    /\ catalog \in GroupCatalogs
    /\ indexes = build_indexes(catalog)
    /\ query = NoQuery
    /\ view = <<>>

\* main menu choice 4 of a session with the selection ids: the conflicts of
\* the selected events and their overview by course pair
FlowConflicts ==
    /\ query.name = "init"
    /\ \E ids \in {{IdA, IdBU}, {IdA, IdBU, IdABU}} :
        \E confs \in {sort_conflicts(conflict_pairs(
                          selected_events(ids, indexes.events_by_course_id)))} :
            /\ query' = [name |-> "flow_conflicts", selected_ids |-> ids, confs |-> confs]
            /\ view' = group_conflicts(confs)
    /\ UNCHANGED <<catalog, indexes>>
    /\ UNCHANGED <<cvars, svars>>

NextGrouping == FlowConflicts

SpecGrouping == InitGrouping /\ [][NextGrouping]_vars

(***************************************************************************)
(* Properties of the conflict overview                                     *)
(***************************************************************************)
\* the unordered pair of the course identifiers of a conflict pair
CoursePair(p) == {safe_key(p[1]), safe_key(p[2])}

GroupCourses(g) == {g.key[1], g.key[2]}

\* C20: conflict pairs are grouped by the unordered pair of their two course
\* identifiers, (A, B) and (B, A) falling in one group, and the groups are
\* listed by descending number of conflicts, ties broken by ascending pair key.
C20_ConflictGroups ==
    query.name = "flow_conflicts" =>
        /\ \A g \in 1..Len(view) : \A h \in 1..Len(view) :
            g # h => GroupCourses(view[g]) # GroupCourses(view[h])
        /\ \A g \in 1..Len(view) :
            /\ view[g].pairs # <<>>
            /\ view[g].pairs
                = SelectSeq(query.confs, LAMBDA p : CoursePair(p) = GroupCourses(view[g]))
        /\ \A k \in 1..Len(query.confs) :
            \E g \in 1..Len(view) : CoursePair(query.confs[k]) = GroupCourses(view[g])
        /\ \A g \in 1..Len(view) : \A h \in 1..Len(view) :
            g < h =>
                \/ Len(view[g].pairs) > Len(view[h].pairs)
                \/ /\ Len(view[g].pairs) = Len(view[h].pairs)
                   /\ tuple_lt(view[g].key, view[h].key)

C20_Witness ==
    /\ query.name = "flow_conflicts"
    /\ Len(view) = 2
    /\ Len(view[1].pairs) = 2
    /\ safe_key(view[1].pairs[1][1]) # safe_key(view[1].pairs[2][1])
    /\ safe_key(view[1].pairs[1][1]) = safe_key(view[1].pairs[2][2])
    /\ tuple_lt(view[2].key, view[1].key)

(***************************************************************************)
(* The agenda as a state machine                                           *)
(***************************************************************************)
MaxAgendaEvents == 3

D15 == <<"2", "0", "2", "6", "-", "1", "-", "5">>

\* dates of the events of one course: Sunday 2026-01-04 (ISO week 2026-W01),
\* Monday 2026-01-05 written in two ways and Tuesday 2026-01-06 (2026-W02), a
\* day that does not exist, and None
AgendaDates == {StrV(D0104), StrV(D0105), StrV(D15), StrV(D0106), StrV(D0230), NoneV}

AgendaEventPool ==
    { Event(AbsentV, StrV(IdB), d, StrV(t[1]), StrV(t[2]))
      : d \in AgendaDates, t \in {<<T1000, T1100>>, <<T1030, T1200>>} }

AgendaCatalogs ==
    { Catalog(<<>>, es) : es \in UNION { [1..n -> AgendaEventPool] : n \in 0..MaxAgendaEvents } }

\* an interactive session with its indexes built
InitAgenda ==
    /\ ConflictsIdle
    /\ StoreIdle
    /\ catalog \in AgendaCatalogs
    /\ indexes = build_indexes(catalog)
    /\ query = NoQuery
    /\ view = <<>>

\* main menu choice 6 of a session that has course B selected: the flow ends
\* at once without events, else the user leaves, asks for all weeks or reads
\* page after page
FlowAgenda ==
    /\ query.name = "init"
    /\ \E evs \in {selected_events({IdBU}, indexes.events_by_course_id)} :
        \E mode \in {<<"0">>, <<"a">>, <<>>} :
            /\ query' = [name |-> "flow_agenda", events |-> evs,
                         shown |-> evs # <<>> /\ mode # <<"0">>]
            /\ view' = IF evs = <<>> THEN <<>> ELSE flow_agenda(evs, mode, 1)
    /\ UNCHANGED <<catalog, indexes>>
    /\ UNCHANGED <<cvars, svars>>

NextAgenda == FlowAgenda

SpecAgenda == InitAgenda /\ [][NextAgenda]_vars

(***************************************************************************)
(* Properties of the agenda                                                *)
(***************************************************************************)
\* the places of the agenda: week w, date d of that week
AgendaDatePlaces ==
    { <<w, d>> : w \in 1..Len(view), d \in 1..MaxAgendaEvents } \cap
    UNION { { <<w, d>> : d \in 1..Len(view[w].dates) } : w \in 1..Len(view) }

\* number of times e is listed in the agenda
AgendaOccurrences(e) ==
    Cardinality({ <<p, i>> \in AgendaDatePlaces \X (1..MaxAgendaEvents) :
                     /\ i <= Len(view[p[1]].dates[p[2]].events)
                     /\ view[p[1]].dates[p[2]].events[i] = e })

\* the calendar day of the date heading at place p
HeadingDay(p) == parse_date(view[p[1]].dates[p[2]].date)

\* C21: the agenda partitions the selected-events view: every selected event
\* is listed under exactly one calendar date and that date under exactly one
\* ISO (year, week); the weeks and the dates within a week are in ascending
\* order and the events of a date in chronological order of start.
C21_AgendaPartition ==
    (query.name = "flow_agenda" /\ query.shown) =>
        /\ \A e \in AgendaEventPool : AgendaOccurrences(e) = Occurrences(query.events, e)
        /\ \A p \in AgendaDatePlaces :
            /\ HeadingDay(p).ok
            /\ IsoWeek(HeadingDay(p)) = view[p[1]].week
            /\ \A i \in 1..Len(view[p[1]].dates[p[2]].events) :
                CalendarDay(view[p[1]].dates[p[2]].events[i]) = HeadingDay(p)
            /\ \A i \in 1..Len(view[p[1]].dates[p[2]].events) :
                \A j \in 1..Len(view[p[1]].dates[p[2]].events) :
                    i < j => time_to_minutes(view[p[1]].dates[p[2]].events[i].start.s).val
                                <= time_to_minutes(view[p[1]].dates[p[2]].events[j].start.s).val
        /\ \A p \in AgendaDatePlaces : \A q \in AgendaDatePlaces :
            p # q => HeadingDay(p) # HeadingDay(q)
        /\ \A w \in 1..Len(view) : \A x \in 1..Len(view) :
            w < x => week_lt(view[w].week, view[x].week)
        /\ \A p \in AgendaDatePlaces : \A q \in AgendaDatePlaces :
            (p[1] = q[1] /\ p[2] < q[2]) => ymd2ord(HeadingDay(p)) < ymd2ord(HeadingDay(q))

(***************************************************************************)
(* The parse run as a state machine                                        *)
(***************************************************************************)
MaxLines == 2

\* the parts of Termin lines as the portal writes them: dates with and
\* without leading zeros and a day that does not exist; times with and
\* without blanks, "Uhr" and colon, and one without an end; a room and a room
\* of a block course; the exam mark
TerminDates == {<<"0", "5", ".", "0", "1", ".", "2", "0", "2", "6">>, <<"5", ".", "1", ".", "2", "0", "2", "6">>, <<"3", "0", ".", "0", "2", ".", "2", "0", "2", "6">>}
TerminTimes == {<<"1", "0", ":", "0", "0", " ", "-", " ", "1", "1", ":", "0", "0">>, <<"1", "0", ":", "0", "0", "-", "1", "2", ":", "0", "0", " ", "U", "h", "r">>, <<"1", "0", "0", "0", " ", "-", " ", "1", "1", "0", "0">>, <<"1", "0", ":", "0", "0">>}
TerminRooms == {<<"R", "1">>, <<"R", "1", ",", " ", "B", "l", "o", "c", "k", " ", "B">>}
TerminMarks == {<<>>, <<" ">> \o Pruefung}

TerminLine(date, time, room, mark) ==
    <<"M", "o", ",", " ">> \o date \o <<",", " ">> \o time \o <<",", " ">> \o room \o mark

\* the lines above, a line without text, a line without room and a line with
\* a two-digit year
TerminLines ==
    { TerminLine(d, t, r, m) : d \in TerminDates, t \in TerminTimes, r \in TerminRooms, m \in TerminMarks }
    \cup {<<>>, <<" ", " ">>, <<"M", "o", ",", " ", "0", "5", ".", "0", "1", ".", "2", "0", "2", "6", ",", " ", "1", "0", ":", "0", "0", " ", "-", " ", "1", "1", ":", "0", "0">>, <<"M", "o", ",", " ", "0", "5", ".", "0", "1", ".", "2", "6", ",", " ", "1", "0", ":", "0", "0", " ", "-", " ", "1", "1", ":", "0", "0", ",", " ", "R", "1">>}

\* lines of the pages of a second course
OtherLines == {<<"M", "o", ",", " ", "0", "5", ".", "0", "1", ".", "2", "0", "2", "6", ",", " ", "1", "0", ":", "0", "0", " ", "-", " ", "1", "1", ":", "0", "0", ",", " ", "R", "1">>, <<"D", "i", ",", " ", "0", "6", ".", "0", "1", ".", "2", "0", "2", "6", ",", " ", "1", "0", ":", "0", "0", " ", "-", " ", "1", "1", ":", "0", "0", ",", " ", "R", "1">>}

Page(title, termin_block) == [title |-> title, termin_block |-> termin_block]

\* the cached pages by file stem: one course with up to MaxLines Termin lines
\* or without the Termin/e row, or two courses with one line each
RawDirs ==
    { [stem \in {<<"A">>} |-> Page(<<"t">>, StrV(join(ls, <<"\n">>)))]
      : ls \in UNION { [1..n -> TerminLines] : n \in 1..MaxLines } }
    \cup { [stem \in {<<"A">>} |-> Page(<<"t">>, NoneV)] }
    \cup { [stem \in {<<"A">>, <<"B">>} |-> Page(<<"t">>, StrV(IF stem = <<"A">> THEN la ELSE lb))]
           : la \in OtherLines, lb \in OtherLines }

\* an event as events.json holds it
JsonEvent(ev) ==
    Event(StrV(ev.event_id), StrV(ev.course_id), StrV(ev.date), StrV(ev.start), StrV(ev.end))

InitParse ==
    /\ ConflictsIdle
    /\ StoreIdle
    /\ catalog = NoCatalog
    /\ indexes = NoIndexes
    /\ query \in { [name |-> "raw", raw_dir |-> dir] : dir \in RawDirs }
    /\ view = <<>>

\* one call of parse_termin_line on a line of a cached page
ParseTerminLine ==
    /\ query.name = "raw"
    /\ \E stem \in DOMAIN query.raw_dir :
        /\ query.raw_dir[stem].termin_block.tag = "str"
        /\ \E line \in { l : l \in { split(query.raw_dir[stem].termin_block.s, "\n")[k]
                                     : k \in 1..Len(split(query.raw_dir[stem].termin_block.s, "\n")) } } :
            /\ query' = [name |-> "parse_termin_line", line |-> line, course_id |-> stem,
                         title |-> query.raw_dir[stem].title]
            /\ view' = parse_termin_line(line, stem, query.raw_dir[stem].title)
    /\ UNCHANGED <<catalog, indexes>>
    /\ UNCHANGED <<cvars, svars>>

\* one parse run over the cached pages: courses.json and events.json written
ParseAll ==
    /\ query.name = "raw"
    /\ \E evs \in {parse_all(sorted(DOMAIN query.raw_dir), query.raw_dir, <<>>)} :
        /\ view' = evs
        /\ catalog' = Catalog([k \in 1..Cardinality(DOMAIN query.raw_dir) |->
                                  [course_id |-> StrV(sorted(DOMAIN query.raw_dir)[k]),
                                   title |-> StrV(query.raw_dir[sorted(DOMAIN query.raw_dir)[k]].title)]],
                              [k \in 1..Len(evs) |-> JsonEvent(evs[k])])
    /\ query' = [name |-> "parse_all", raw_dir |-> query.raw_dir]
    /\ UNCHANGED indexes
    /\ UNCHANGED <<cvars, svars>>

NextParse == ParseTerminLine \/ ParseAll

SpecParse == InitParse /\ [][NextParse]_vars

(***************************************************************************)
(* Properties of the parse run                                             *)
(***************************************************************************)
\* C22: among all events produced by one parse run (all Termin lines of all
\* courses) no two events have the same event_id.
C22_EventIdsUnique ==
    query.name = "parse_all" =>
        \A i \in 1..Len(view) : \A j \in 1..Len(view) :
            i # j => view[i].event_id # view[j].event_id

\* the comma-separated parts of a Termin line, the exam mark left out
CommaParts(line) == strip_all(split(replace(line, Pruefung, <<>>), ","))

\* the line is one of those that give no event
NoEventLine(line) ==
    \/ strip(line) = <<>>
    \/ Len(CommaParts(line)) < 4
    \/ ~strptime_dmy(CommaParts(line)[2]).ok
    \/ ~contains(CommaParts(line)[3], <<"-">>)

\* C24: parse_termin_line yields one event or None per line: None for a
\* blank line, a line with fewer than four comma-separated parts, a date that
\* is not a valid DD.MM.YYYY date, or a time part without '-'; otherwise one
\* event with the ISO date, start and end taken verbatim (a time without ':'
\* is accepted as-is), and kind/note exam/'Prüfung' if the line contains
\* '(Prüfung)', else other/'Block course' if it contains 'Block', else
\* lecture/None.
C24_OneEventOrNone ==
    query.name = "parse_termin_line" =>
        IF NoEventLine(query.line) THEN view = NoEvent
        ELSE /\ ~view.none
             /\ Len(view.date) = 10
             /\ parse_date(view.date) = strptime_dmy(CommaParts(query.line)[2])
             /\ view.start \o <<"-">> \o view.end
                  = replace(replace(CommaParts(query.line)[3], Uhr, <<>>), <<" ">>, <<>>)
             /\ IF contains(query.line, Pruefung)
                THEN view.kind = "exam" /\ view.note = StrV(<<"P", "r", "ü", "f", "u", "n", "g">>)
                ELSE IF contains(query.line, Block)
                THEN /\ view.kind = "other"
                     /\ view.note = StrV(<<"B", "l", "o", "c", "k", " ", "c", "o", "u", "r", "s", "e">>)
                ELSE view.kind = "lecture" /\ view.note = NoneV

C24_Witness ==
    /\ query.name = "parse_termin_line"
    /\ ~view.none
    /\ view.kind = "exam"
    /\ contains(query.line, Block)
    /\ ~contains(view.start, <<":">>)
    /\ view.date = D0105
    /\ contains(query.line, <<"5", ".", "1", ".">>)

(***************************************************************************)
(* The iCalendar export as a state machine                                 *)
(***************************************************************************)
MaxIcsEvents == 2

IcsEvent(eid, cid, title, date, start, end, location, note) ==
    [event_id |-> eid, course_id |-> cid, title |-> title, date |-> date, start |-> start,
     end |-> end, location |-> location, note |-> note]

\* a valid date with and without leading zeros, a day that does not exist,
\* None and the empty string
IcsDates == {StrV(D0105), StrV(D15), StrV(D0230), NoneV, StrV(<<>>)}

\* a valid time with a leading blank, an hour that does not exist, a time
\* without colon and no start at all
IcsStarts == {StrV(T1000p), StrV(T2400), StrV(TNoColon), AbsentV}

IcsEnds == {StrV(T1100), StrV(<<>>)}

\* an event as parse.py writes it, and one without id, with line breaks and
\* separators in its title and with a room and a note
IcsEventPool ==
    { IcsEvent(StrV(<<"E", "1">>), StrV(IdB), StrV(<<"t">>), d, st, en, AbsentV, NoneV)
      : d \in IcsDates, st \in IcsStarts, en \in IcsEnds }
    \cup
    { IcsEvent(AbsentV, StrV(IdB), StrV(<<"a", "\n", "E", "N", "D", ":", "V", "E", "V", "E", "N", "T", ";", "\\">>),
               d, st, en, StrV(<<"R", ",", "1">>), StrV(<<"n", "\r", "\n", "m">>))
      : d \in IcsDates, st \in IcsStarts, en \in IcsEnds }

InitIcs ==
    /\ ConflictsIdle
    /\ StoreIdle
    /\ catalog \in { Catalog(<<>>, es)
                     : es \in UNION { [1..n -> IcsEventPool] : n \in 0..MaxIcsEvents } }
    /\ indexes = NoIndexes
    /\ query = NoQuery
    /\ view = <<>>

\* one call of export_events_to_ics on the events of the catalog
ExportEventsToIcs ==
    /\ query.name = "init"
    /\ query' = [name |-> "export_events_to_ics", events |-> catalog.events]
    /\ view' = export_events_to_ics(catalog.events)
    /\ UNCHANGED <<catalog, indexes>>
    /\ UNCHANGED <<cvars, svars>>

NextIcs == ExportEventsToIcs

SpecIcs == InitIcs /\ [][NextIcs]_vars

(***************************************************************************)
(* Properties of the iCalendar export                                      *)
(***************************************************************************)
\* the ways to write the number n of a clock: two digits, or one below ten
ClockSpellings(n) == {zero_padded(n, 2)} \cup (IF n < 10 THEN {zero_padded(n, 1)} ELSE {})

\* s is a time HH:MM
IsClock(s) ==
    \E h \in 0..23 : \E m \in 0..59 :
        \E a \in ClockSpellings(h) : \E b \in ClockSpellings(m) : s = a \o <<":">> \o b

\* the text of a field of an event, surrounding blanks left out
FieldText(v) == IF v.tag = "str" THEN strip(v.s) ELSE <<>>

\* date, start and end of ev are non-empty and parse as YYYY-MM-DD / HH:MM
Exportable(ev) ==
    /\ FieldText(ev.date) # <<>> /\ FieldText(ev.start) # <<>> /\ FieldText(ev.end) # <<>>
    /\ parse_date(FieldText(ev.date)).ok
    /\ IsClock(FieldText(ev.start))
    /\ IsClock(FieldText(ev.end))

\* the BEGIN and END lines of the file, in order
BlockLines(lines) == SelectSeq(lines, LAMBDA l : l.name \in {"BEGIN", "END"})

VEVENT == <<"V", "E", "V", "E", "N", "T">>
VCALENDAR == <<"V", "C", "A", "L", "E", "N", "D", "A", "R">>

\* C23: export_events_to_ics returns the number of VEVENT blocks it writes,
\* which equals the number of input events whose date, start and end are all
\* non-empty and parse as YYYY-MM-DD / HH:MM; every other event is skipped;
\* the file is one VCALENDAR whose BEGIN:VEVENT/END:VEVENT blocks are
\* balanced and not nested, and no value breaks a line.
C23_IcsExport ==
    query.name = "export_events_to_ics" =>
        /\ view.count = Cardinality({ k \in 1..Len(query.events) : Exportable(query.events[k]) })
        /\ view.count
             = Cardinality({ k \in 1..Len(view.lines) : view.lines[k] = IcsLine("BEGIN", VEVENT) })
        /\ LET b == BlockLines(view.lines)
           IN  /\ Len(b) = 2 * view.count + 2
               /\ b[1] = IcsLine("BEGIN", VCALENDAR)
               /\ b[Len(b)] = IcsLine("END", VCALENDAR)
               /\ view.lines[1] = b[1]
               /\ view.lines[Len(view.lines)] = b[Len(b)]
               /\ \A k \in 1..view.count :
                    /\ b[2 * k] = IcsLine("BEGIN", VEVENT)
                    /\ b[2 * k + 1] = IcsLine("END", VEVENT)
        /\ \A k \in 1..Len(view.lines) :
            ~contains(view.lines[k].value, <<"\n">>) /\ ~contains(view.lines[k].value, <<"\r">>)

C23_Witness ==
    /\ query.name = "export_events_to_ics"
    /\ Len(query.events) = 2
    /\ view.count = 1
    /\ Exportable(query.events[2])
    /\ query.events[1].end = StrV(<<>>)
    /\ query.events[2].event_id = AbsentV

(***************************************************************************)
(* The update-data flow as a state machine                                 *)
(***************************************************************************)
MaxUpdates == 2

UpdateCatalogOld ==
    Catalog(<<Course(StrV(IdB))>>,
            <<Event(AbsentV, StrV(IdB), StrV(D0105), StrV(T1000), StrV(T1100))>>)

UpdateCatalogNew ==
    Catalog(<<Course(StrV(IdB)), Course(StrV(IdAb))>>,
            <<Event(AbsentV, StrV(IdB), StrV(D0106), StrV(T1030), StrV(T1200)),
              Event(AbsentV, StrV(IdAb), StrV(D0106), StrV(T1000), StrV(T1100))>>)

UpdateCatalogLater == Catalog(<<Course(StrV(IdAb))>>, <<>>)

\* what a completed parse can write
ParsedCatalogs == {UpdateCatalogOld, UpdateCatalogNew, UpdateCatalogLater}

\* data/processed when the parser did not exit with 0: untouched, or
\* courses.json of the new data beside the old events.json
parse_failed_catalogs(old, new) ==
    {old} \cup (IF old.exists THEN {Catalog(new.courses, old.events)} ELSE {})

\* myschedule interactive was started with course B selected: the session
\* is at its main menu, or without processed data at the onboarding prompt
InitUpdate ==
    /\ ConflictsIdle
    /\ file = save_selected_course_ids(<<IdB>>)
    /\ selected = {IdBU}
    /\ op = "init"
    /\ arg = <<>>
    /\ result = Ok({})
    /\ saved_ids = NotSaved
    /\ catalog \in {NoCatalog} \cup ParsedCatalogs
    /\ indexes = build_indexes(catalog)
    /\ sess_pc = IF catalog.exists THEN "menu" ELSE "onboarding"
    /\ view = selected_events({IdBU}, build_indexes(catalog).events_by_course_id)
    /\ query = [name |-> "update", origin |-> "none", runs |-> 0, scrape |-> "none",
                parse |-> "none", metadata |-> FALSE, outcome |-> "none"]

UpdateSteady == UNCHANGED <<file, op, arg, result, saved_ids>> /\ UNCHANGED cvars

\* _flow_update_data returns False: the onboarding ends the session, the menu
\* loop goes on with the indexes it has
UpdateReturnsFalse(outcome, q) ==
    /\ query' = [q EXCEPT !.outcome = outcome]
    /\ IF query.origin = "onboarding"
       THEN sess_pc' = "ended" /\ UNCHANGED <<selected, view>>
       ELSE MenuPass(indexes)
    /\ UNCHANGED indexes

\* go = "0" or "n" at the onboarding prompt
OnboardingDecline ==
    /\ sess_pc = "onboarding"
    /\ sess_pc' = "ended"
    /\ UNCHANGED <<catalog, indexes, query, view, selected>>
    /\ UpdateSteady

OnboardingAccept ==
    /\ sess_pc = "onboarding"
    /\ sess_pc' = "semester"
    /\ query' = UpdateRun("onboarding", query.runs + 1)
    /\ UNCHANGED <<catalog, indexes, view, selected>>
    /\ UpdateSteady

\* main menu choice 8
MenuChoiceUpdate ==
    /\ sess_pc = "menu"
    /\ query.runs < MaxUpdates
    /\ sess_pc' = "semester"
    /\ query' = UpdateRun("menu", query.runs + 1)
    /\ UNCHANGED <<catalog, indexes, view, selected>>
    /\ UpdateSteady

\* step 1: the semester prompt
PromptSemester ==
    /\ sess_pc = "semester"
    /\ \E semester_in \in {"0", "", "FS26"} :
        IF semester_in = "0" THEN UpdateReturnsFalse("cancelled", query)
        ELSE /\ sess_pc' = "refresh"
             /\ UNCHANGED <<indexes, query, view, selected>>
    /\ UNCHANGED catalog
    /\ UpdateSteady

\* step 2: the refresh prompt
PromptRefresh ==
    /\ sess_pc = "refresh"
    /\ \E refresh_in \in {"0", "n", "y"} :
        IF refresh_in = "0" THEN UpdateReturnsFalse("cancelled", query)
        ELSE /\ sess_pc' = "confirm"
             /\ UNCHANGED <<indexes, query, view, selected>>
    /\ UNCHANGED catalog
    /\ UpdateSteady

\* step 3: the confirmation
PromptConfirm ==
    /\ sess_pc = "confirm"
    /\ \E confirm \in {"0", "n", "y"} :
        IF confirm \in {"0", "n"} THEN UpdateReturnsFalse("cancelled", query)
        ELSE /\ sess_pc' = "scraping"
             /\ UNCHANGED <<indexes, query, view, selected>>
    /\ UNCHANGED catalog
    /\ UpdateSteady

\* _run_scrape_subprocess: the scraper exits with rc, or Ctrl+C stops it
RunScrape ==
    /\ sess_pc = "scraping"
    /\ \E ending \in {"rc 0", "rc 1", "KeyboardInterrupt"} :
        IF ending = "rc 0"
        THEN /\ sess_pc' = "parsing"
             /\ query' = [query EXCEPT !.scrape = "ok"]
             /\ UNCHANGED <<indexes, view, selected>>
        ELSE UpdateReturnsFalse(IF ending = "rc 1" THEN "failed" ELSE "cancelled",
                                [query EXCEPT !.scrape = "failed"])
    /\ UNCHANGED catalog
    /\ UpdateSteady

\* _run_parse_subprocess: the parser exits with 0 and has rewritten the
\* processed files, or it fails or is stopped
RunParse ==
    /\ sess_pc = "parsing"
    /\ \E ending \in {"rc 0", "rc 1", "KeyboardInterrupt"} : \E new \in ParsedCatalogs :
        IF ending = "rc 0"
        THEN /\ catalog' = new
             /\ sess_pc' = "metadata"
             /\ query' = [query EXCEPT !.parse = "ok"]
             /\ UNCHANGED <<indexes, view, selected>>
        ELSE /\ catalog' \in parse_failed_catalogs(catalog, new)
             /\ UpdateReturnsFalse(IF ending = "rc 1" THEN "failed" ELSE "cancelled",
                                   [query EXCEPT !.parse = "failed"])
    /\ UpdateSteady

\* the end of _flow_update_data: metadata.json is written, or writing it
\* fails and is reported; the flow returns True, run_interactive rebuilds its
\* indexes and the menu loop goes on
WriteMetadata ==
    /\ sess_pc = "metadata"
    /\ \E written \in BOOLEAN :
        query' = [query EXCEPT !.metadata = written, !.outcome = "success"]
    /\ indexes' = rebuild_indexes(catalog, indexes)
    /\ MenuPass(rebuild_indexes(catalog, indexes))
    /\ UNCHANGED catalog
    /\ UpdateSteady

NextUpdate ==
    \/ OnboardingDecline
    \/ OnboardingAccept
    \/ MenuChoiceUpdate
    \/ PromptSemester
    \/ PromptRefresh
    \/ PromptConfirm
    \/ RunScrape
    \/ RunParse
    \/ WriteMetadata

SpecUpdate == InitUpdate /\ [][NextUpdate]_vars

(***************************************************************************)
(* Properties of the update-data flow                                      *)
(***************************************************************************)
\* a run of the flow ends in this step
UpdateEnds == query.outcome = "running" /\ query'.outcome # "running"

\* C25: the update-data flow ends as success, failed or cancelled; the parser
\* runs only after the scraper exited with code 0, metadata is written only
\* after both succeeded, and the session's indexes are replaced, by a full
\* rebuild from the processed files with nothing merged from the old indexes,
\* only when the flow reports success; on failure or cancellation at any step
\* the session keeps its previous indexes.
C25_UpdateFlow ==
    /\ [](/\ query.outcome \in {"none", "running", "success", "failed", "cancelled"}
          /\ (sess_pc = "parsing" \/ query.parse # "none") => query.scrape = "ok"
          /\ (sess_pc = "metadata" \/ query.metadata)
                => (query.scrape = "ok" /\ query.parse = "ok")
          /\ query.outcome = "success" => (query.scrape = "ok" /\ query.parse = "ok"))
    /\ [][ /\ UpdateEnds => query'.outcome \in {"success", "failed", "cancelled"}
           /\ (UpdateEnds /\ query'.outcome = "success")
                => /\ indexes' = build_indexes(catalog')
                   /\ \A k \in DOMAIN indexes'.events_by_course_id :
                        \A i \in 1..Len(indexes'.events_by_course_id[k]) :
                            \E j \in 1..Len(catalog'.events) :
                                indexes'.events_by_course_id[k][i] = catalog'.events[j]
                   /\ indexes'.courses = catalog'.courses
           /\ (UpdateEnds /\ query'.outcome \in {"failed", "cancelled"}) => indexes' = indexes
           /\ ~UpdateEnds => indexes' = indexes
           /\ catalog' # catalog => (sess_pc = "parsing" /\ query.scrape = "ok")
         ]_vars

C25_Witness ==
    /\ query.outcome = "success"
    /\ query.runs = 2
    /\ catalog = UpdateCatalogLater
    /\ indexes = build_indexes(UpdateCatalogLater)
    /\ view = <<>>

(***************************************************************************)
(* Two callers of the selection store as a state machine                   *)
(***************************************************************************)
MaxRaceStored == 2

\* the mutations: the CLI commands, and the add and remove flows of an
\* interactive session, whose set was loaded at the head of the menu loop
CallerKinds == {"cli_add", "cli_remove", "flow_add", "flow_remove"}

Caller(kind, a) == [kind |-> kind, cid |-> upper(strip(a)), pc |-> "start", selected |-> {}]

\* the stored selections: up to MaxRaceStored of the ids A, B and AB
RaceFiles ==
    { save_selected_course_ids(iter(S))
      : S \in { T \in SUBSET {IdA, IdBU, IdABU} : Cardinality(T) <= MaxRaceStored } }

\* caller 1 mutates course B, caller 2 course A
InitRace ==
    /\ ConflictsIdle
    /\ file \in RaceFiles
    /\ selected = {}
    /\ sess_pc = "off"
    /\ op = "init"
    /\ arg = <<>>
    /\ result = Ok({})
    /\ saved_ids = NotSaved
    /\ catalog = NoCatalog
    /\ indexes = NoIndexes
    /\ query \in { [name |-> "race", callers |-> <<Caller(k1, IdB), Caller(k2, IdPadA)>>,
                    overlap |-> FALSE] : k1 \in CallerKinds, k2 \in CallerKinds }
    /\ view = <<>>

\* selected = load_selected_course_ids() of caller c
CallerLoad(c) ==
    /\ query.callers[c].pc = "start"
    /\ query' = [query EXCEPT !.callers[c].pc = "loaded",
                              !.callers[c].selected = load_selected_course_ids(file).val,
                              !.overlap = @ \/ query.callers[3 - c].pc = "loaded"]
    /\ UNCHANGED <<file, selected, sess_pc, op, arg, result, saved_ids, catalog, indexes, view>>
    /\ UNCHANGED cvars

\* the rest of caller c: the membership test, the mutation of its set and
\* save_selected_course_ids
CallerSave(c) ==
    /\ query.callers[c].pc = "loaded"
    /\ \E me \in {query.callers[c]} :
        /\ file' = IF caller_saves(me.kind, me.cid, me.selected)
                   THEN save_selected_course_ids(
                            iter(mutated_selection(me.kind, me.cid, me.selected)))
                   ELSE file
        /\ query' = [query EXCEPT !.callers[c].pc = "done",
                                  !.callers[c].selected =
                                      IF caller_saves(me.kind, me.cid, me.selected)
                                      THEN mutated_selection(me.kind, me.cid, me.selected)
                                      ELSE me.selected]
    /\ UNCHANGED <<selected, sess_pc, op, arg, result, saved_ids, catalog, indexes, view>>
    /\ UNCHANGED cvars

NextRace == \E c \in {1, 2} : CallerLoad(c) \/ CallerSave(c)

SpecRace == InitRace /\ [][NextRace]_vars

(***************************************************************************)
(* Properties of two callers                                               *)
(***************************************************************************)
\* the mutation of caller c is in the persisted record
MutationKept(c) ==
    IF query.callers[c].kind \in {"cli_add", "flow_add"}
    THEN query.callers[c].cid \in load_selected_course_ids(file).val
    ELSE query.callers[c].cid \notin load_selected_course_ids(file).val

\* C26: selection mutation is a load, mutate, save sequence without
\* atomicity: when each caller runs alone from its load to its save no
\* mutation is lost; only callers whose load and save steps interleave can
\* leave a record that lacks one of the two mutations.
C26_LostUpdateNeedsInterleaving ==
    query.name = "race" =>
        /\ \A c \in {1, 2} :
            (query.callers[c].pc = "done" /\ query.callers[3 - c].pc = "start")
                => MutationKept(c)
        /\ (query.callers[1].pc = "done" /\ query.callers[2].pc = "done" /\ ~query.overlap)
                => (MutationKept(1) /\ MutationKept(2))

\* two CLI adds of different ids interleaved, one of them lost
C26_Witness ==
    /\ query.name = "race"
    /\ query.callers[1].kind = "cli_add" /\ query.callers[2].kind = "cli_add"
    /\ query.callers[1].pc = "done" /\ query.callers[2].pc = "done"
    /\ query.overlap
    /\ ~MutationKept(1)
    /\ MutationKept(2)

(***************************************************************************)
(* The conflict overview over catalogs with events of no course            *)
(***************************************************************************)
MaxTotalEvents == 3

\* events of the courses A and B and events whose course id is None, blank
\* or missing, all on one day
TotalEventPool ==
    { Event(AbsentV, c, StrV(D0105), StrV(t[1]), StrV(t[2]))
      : c \in {StrV(IdPadA), StrV(IdB), NoneV, StrV(IdBlank), AbsentV},
        t \in {<<T1000, T1100>>, <<T1030, T1200>>} }

InitGroupTotals ==
    /\ ConflictsIdle
    /\ StoreIdle
    /\ catalog \in { Catalog(<<>>, es)
                     : es \in UNION { [1..n -> TotalEventPool] : n \in 0..MaxTotalEvents } }
    /\ indexes = build_indexes(catalog)
    /\ query = NoQuery
    /\ view = <<>>

SpecGroupTotals == InitGroupTotals /\ [][NextGrouping]_vars

\* the sum of the conflict counts shown per course pair
RECURSIVE GroupCountSum(_)
GroupCountSum(groups) ==
    IF groups = <<>> THEN 0 ELSE Len(Head(groups).pairs) + GroupCountSum(Tail(groups))

\* number of groups that list the conflict pair p
GroupsListing(p) ==
    Cardinality({ g \in 1..Len(view) : \E i \in 1..Len(view[g].pairs) : view[g].pairs[i] = p })

\* C27: in the interactive conflict view every conflict pair among the
\* selected events falls into exactly one course-pair group, so the per-group
\* conflict counts sum to the reported total; the events reachable through
\* the index carry a non-empty course id, so the grouping skips no pair.
C27_GroupCountsSumToTotal ==
    query.name = "flow_conflicts" =>
        /\ query.confs
             = sort_conflicts(conflict_pairs(
                   selected_events(query.selected_ids, indexes.events_by_course_id)))
        /\ \A k \in 1..Len(query.confs) :
            /\ safe_key(query.confs[k][1]) # <<>>
            /\ safe_key(query.confs[k][2]) # <<>>
            /\ GroupsListing(query.confs[k]) = 1
        /\ GroupCountSum(view) = Len(query.confs)

C27_Witness ==
    /\ query.name = "flow_conflicts"
    /\ Len(catalog.events) = 3
    /\ \E k \in 1..3 : catalog.events[k].course_id = NoneV
    /\ Len(query.confs) = 1
    /\ GroupCountSum(view) = 1
    /\ Len(conflict_pairs(catalog.events)) = 3

(***************************************************************************)
(* Sequences of CLI add and remove commands beside a reference set         *)
(***************************************************************************)
MaxOps == 3

\* any persisted record, with and without processed data; view is the
\* reference: the set loaded first, to which insert and delete are applied
InitSetOps ==
    /\ ConflictsIdle
    /\ file \in OddFiles \cup RecordFiles(MaxStoredSel)
    /\ selected = {}
    /\ sess_pc = "off"
    /\ op = "init"
    /\ arg = <<>>
    /\ result = Ok({})
    /\ saved_ids = NotSaved
    /\ catalog \in SessionCatalogs
    /\ indexes = cli_build_indexes(catalog)
    /\ query = [name |-> "set_ops", steps |-> 0]
    /\ view = load_selected_course_ids(file).val

\* myschedule add <course_id>, and insert on the reference set
AddCommand ==
    /\ query.name = "set_ops"
    /\ query.steps < MaxOps
    /\ \E a \in RawIds :
        \E r \in {cmd_add(a, file)} :
            /\ op' = "cli_add"
            /\ arg' = a
            /\ result' = r.result
            /\ file' = r.file
            /\ view' = IF upper(strip(a)) = <<>> THEN view ELSE view \cup {upper(strip(a))}
    /\ query' = [query EXCEPT !.steps = @ + 1]
    /\ UNCHANGED <<selected, sess_pc, saved_ids, catalog, indexes>>
    /\ UNCHANGED cvars

\* myschedule remove <course_id>, and delete on the reference set
RemoveCommand ==
    /\ query.name = "set_ops"
    /\ query.steps < MaxOps
    /\ \E a \in RawIds :
        \E r \in {cmd_remove(a, file)} :
            /\ op' = "cli_remove"
            /\ arg' = a
            /\ result' = r.result
            /\ file' = r.file
            /\ view' = view \ {upper(strip(a))}
    /\ query' = [query EXCEPT !.steps = @ + 1]
    /\ UNCHANGED <<selected, sess_pc, saved_ids, catalog, indexes>>
    /\ UNCHANGED cvars

NextSetOps == AddCommand \/ RemoveCommand

SpecSetOps == InitSetOps /\ [][NextSetOps]_vars

\* C28: starting from any persisted record, after any sequence of CLI add
\* and remove commands with non-empty ids, load() returns exactly the set
\* obtained by applying insert and delete of the trimmed upper-cased ids to
\* the set loaded first, whether or not the ids exist in the catalog.
C28_StoreIsASet ==
    query.name = "set_ops" =>
        /\ load_selected_course_ids(file).exc = "none"
        /\ load_selected_course_ids(file).val = view

C28_Witness ==
    /\ query.name = "set_ops"
    /\ query.steps = MaxOps
    /\ ~catalog.exists
    /\ op = "cli_remove"
    /\ result = CmdResult(0, "removed")
    /\ view = {IdA, IdABU}
    /\ load_selected_course_ids(file).val = view

(***************************************************************************)
(* find_conflicts on reordered input                                       *)
(***************************************************************************)
\* the orders of the argument list: pi[k] is the position of the event put
\* at place k
Reorderings ==
    { pi \in [Positions -> Positions] : \A k \in Positions : \E l \in Positions : pi[l] = k }

\* find_conflicts on the list reordered by pi, its pairs as positions of the
\* list in its first order
ConflictsReordered(pi) ==
    The({ [exc |-> r.exc,
           pairs |-> IF r.exc # "none" THEN <<>>
                     ELSE [k \in 1..Len(r.val) |-> <<pi[r.val[k][1]], pi[r.val[k][2]]>>]]
        : r \in {find_conflicts([k \in Positions |-> events[pi[k]]])} })

Unordered(pairs) == { {pairs[k][1], pairs[k][2]} : k \in 1..Len(pairs) }

\* C29: the set of unordered conflicting event pairs returned by
\* find_conflicts does not depend on the order of the input list: any
\* permutation of the same events yields the same set of unordered pairs.
C29_OrderOfInputIrrelevant ==
    fc_done =>
        \A pi \in Reorderings :
            \A r \in {ConflictsReordered(pi)} :
                /\ r.exc = fc_exc
                /\ Unordered(r.pairs) = Unordered(conflicts)
                /\ Len(r.pairs) = Len(conflicts)

\* three events, two conflicts, and an order of the input under which the
\* result list differs in order and orientation
C29_Witness ==
    /\ fc_done
    /\ Len(events) = 3
    /\ Len(conflicts) = 2
    /\ \E pi \in Reorderings :
        /\ ConflictsReordered(pi).pairs # conflicts
        /\ \E k \in 1..2 : \A l \in 1..2 :
            ConflictsReordered(pi).pairs[k] # conflicts[l]

(***************************************************************************)
(* The preview and the conflicts after the add                             *)
(***************************************************************************)
\* the events of the selection, of the candidate, and of the selection with
\* the candidate added
EventsOfSelection == selected_events(query.selected_ids, indexes.events_by_course_id)
EventsOfCandidate == get_list(indexes.events_by_course_id, query.candidate_cid)
EventsAfterAdd ==
    selected_events(query.selected_ids \cup {query.candidate_cid}, indexes.events_by_course_id)

\* number of pairs of the list that are the unordered pair of a and b
PairCount(pairs, a, b) == Cardinality({ k \in 1..Len(pairs) : {pairs[k][1], pairs[k][2]} = {a, b} })

\* C30: for a candidate X not in the selection S, the unordered conflict
\* pairs among the events of S plus X are exactly the disjoint union of the
\* conflicts among the events of S, the pairs of the preview of X against S,
\* and the conflicts among X's own events; so adding a course whose preview is
\* empty never creates a conflict between two different courses.
C30_PreviewCompletesConflicts ==
    query.name = "conflicts_if_added" =>
        \A within \in {conflict_pairs(EventsOfSelection)},
           own \in {conflict_pairs(EventsOfCandidate)},
           after \in {conflict_pairs(EventsAfterAdd)} :
            /\ Len(after) = Len(within) + Len(view) + Len(own)
            /\ \A a \in PreviewEvents : \A b \in PreviewEvents :
                PairCount(after, a, b)
                    = PairCount(within, a, b) + PairCount(view, a, b) + PairCount(own, a, b)
            /\ \A k \in 1..Len(within) :
                safe_key(within[k][1]) \in query.selected_ids
                /\ safe_key(within[k][2]) \in query.selected_ids
            /\ \A k \in 1..Len(own) :
                safe_key(own[k][1]) = query.candidate_cid
                /\ safe_key(own[k][2]) = query.candidate_cid
            /\ \A k \in 1..Len(view) :
                {safe_key(view[k][1]), safe_key(view[k][2])} \cap query.selected_ids # {}
                /\ query.candidate_cid \in {safe_key(view[k][1]), safe_key(view[k][2])}
            /\ view = <<>> =>
                \A k \in 1..Len(after) :
                    safe_key(after[k][1]) # safe_key(after[k][2])
                        => PairCount(within, after[k][1], after[k][2]) > 0

\* a candidate with two events that overlap each other and both overlap an
\* event of the selection
C30_Witness ==
    /\ query.name = "conflicts_if_added"
    /\ query.candidate_cid \notin query.selected_ids
    /\ Len(view) = 2
    /\ Len(conflict_pairs(EventsOfCandidate)) = 1
    /\ Len(conflict_pairs(EventsAfterAdd)) = 3

====
